---- MODULE Spec2Model ----
(***************************************************************************)
(* pv-safe: a validating admission webhook that blocks DELETE requests on  *)
(* Namespaces, PersistentVolumeClaims and PersistentVolumes when the       *)
(* deletion would destroy data.                                            *)
(*                                                                         *)
(*   internal/webhook/handler.go   (listed in docs/ARCHITECTURE.md)        *)
(*   internal/webhook/client.go    RiskCalculator                          *)
(*   internal/webhook/snapshot.go  SnapshotChecker                         *)
(*                                                                         *)
(* Go values are modelled as follows.  A string is a TLA+ string; "" is    *)
(* the empty string.  A pointer or an optional field is a sequence of      *)
(* length 0 (nil / absent) or 1.  fmt.Sprintf output is the tuple of its   *)
(* fragments, so that "the message names X" is "X is one of the            *)
(* fragments".  An error is the tuple of the fragments of its text, <<>>   *)
(* being nil.                                                              *)
(***************************************************************************)
EXTENDS Integers, Sequences, FiniteSets, TLC

VARIABLES
    pvcs,            \* PersistentVolumeClaims of the cluster, in listing order
    pvs,             \* PersistentVolumes of the cluster, by name
    snapshots,       \* VolumeSnapshots of the cluster, in listing order
    classes,         \* VolumeSnapshotClasses of the cluster, by name
    snapshotChecker, \* RiskCalculator.snapshotChecker: <<>> is nil
    httpRequest,     \* the HTTP request ServeHTTP handled last
    reads,           \* the cluster reads made while handling it, in order
    logs,            \* the audit lines written while handling it, in order
    reply,           \* the HTTP reply written for it
    handlers,        \* the executions of ServeHTTP in flight, when the server
                     \* runs several at once: the request, the reads made,
                     \* the reply and the lines written by each
    probed           \* the call of HasReadySnapshot made on its own, if any:
                     \* its arguments and what it returned

cluster == <<pvcs, pvs, snapshots, classes, snapshotChecker>>
vars == <<pvcs, pvs, snapshots, classes, snapshotChecker,
          httpRequest, reads, logs, reply, handlers, probed>>

----------------------------------------------------------------------------
\* Bounds of the model.

\* PVCs in the cluster
MaxPVCs == 2
\* VolumeSnapshots in the cluster
MaxSnapshots == 1
\* the request context may expire after 0..MaxDeadline completed reads
MaxDeadline == 3
\* VolumeSnapshots in the cluster HasReadySnapshot is called over on its own
MaxProbed == 2

----------------------------------------------------------------------------
\* Program constants.

BypassLabel == "pv-safe.io/force-delete"
UnknownDeletionPolicy == "Unknown"
ClaimBound == "Bound"
PersistentVolumeReclaimRetain == "Retain"
PersistentVolumeReclaimDelete == "Delete"
Delete == "DELETE"
MethodPost == "POST"

----------------------------------------------------------------------------
\* The cluster the webhook reads.

Namespaces == {"prod", "dev"}
PVCKeys == {<<"prod", "db">>, <<"prod", "web">>, <<"dev", "db">>}
PVCNames == {k[2] : k \in PVCKeys}

\* The PersistentVolumes of the cluster and their reclaim policies; "" is
\* an unset policy, "Recycle" one the webhook has no rule for.
ReclaimPolicyOf ==
    ("pv-1" :> "Retain") @@ ("pv-2" :> "Delete") @@
    ("pv-3" :> "Recycle") @@ ("pv-4" :> "")
PVNames == DOMAIN ReclaimPolicyOf
\* A volume name no PersistentVolume has (a bound claim whose PV is gone).
MissingPV == "pv-gone"

\* status.phase and spec.volumeName of a claim
Bindings ==
    [phase : {"Bound"}, volumeName : PVNames \cup {MissingPV}]
    \cup {[phase |-> "Pending", volumeName |-> ""],
          [phase |-> "Lost", volumeName |-> MissingPV]}

\* metadata.labels of a claim or a volume: absent, or the bypass label.
ObjectLabels == {<<>>, <<("pv-safe.io/force-delete" :> "true")>>}

PVCRecords ==
    {[namespace |-> k[1], name |-> k[2],
      phase |-> b.phase, volumeName |-> b.volumeName, labels |-> lb] :
        k \in PVCKeys, b \in Bindings, lb \in ObjectLabels}

\* The VolumeSnapshotClasses of the cluster.  A class may lack the
\* deletionPolicy field.
ClassCatalog ==
    ("csi-retain" :> [hasPolicy |-> TRUE, deletionPolicy |-> "Retain"]) @@
    ("csi-delete" :> [hasPolicy |-> TRUE, deletionPolicy |-> "Delete"]) @@
    ("csi-bare" :> [hasPolicy |-> FALSE, deletionPolicy |-> ""])
\* spec.volumeSnapshotClassName of a snapshot: absent, or naming a class.
ClassRefs == {<<>>, <<"csi-retain">>, <<"csi-delete">>}
\* spec.source.persistentVolumeClaimName of a snapshot
SourceRefs == {<<n>> : n \in PVCNames}

SnapshotName(i) == IF i = 1 THEN "snap-1" ELSE IF i = 2 THEN "snap-2" ELSE "snap-3"

\* A snapshot but for its name.
SnapshotBodies ==
    [namespace : Namespaces, sourcePVC : SourceRefs,
     ready : BOOLEAN, className : ClassRefs]

Named(body, i) ==
    [name |-> SnapshotName(i), namespace |-> body.namespace,
     sourcePVC |-> body.sourcePVC, ready |-> body.ready,
     className |-> body.className]

DistinctKeys(list) ==
    \A i, j \in DOMAIN list :
        i # j => <<list[i].namespace, list[i].name>> #
                 <<list[j].namespace, list[j].name>>

\* A volume is bound to one claim at most.
DistinctVolumes(list) ==
    \A i, j \in DOMAIN list :
        (i # j /\ list[i].phase = "Bound" /\ list[j].phase = "Bound")
        => list[i].volumeName # list[j].volumeName

\* Every listing of at most MaxPVCs claims, no two with the same key or
\* bound to the same volume.
PVCLists ==
    {l \in UNION {[1..n -> PVCRecords] : n \in 0..MaxPVCs} :
        DistinctKeys(l) /\ DistinctVolumes(l)}

\* Every listing of at most MaxSnapshots snapshots.
SnapshotLists ==
    {[i \in DOMAIN l |-> Named(l[i], i)] :
        l \in UNION {[1..n -> SnapshotBodies] : n \in 0..MaxSnapshots}}

\* spec.claimRef of a PV: the first claim bound to it, if any.
ClaimRefOf(list, pvName) ==
    LET bound == SelectSeq(list, LAMBDA c :
                     c.phase = "Bound" /\ c.volumeName = pvName)
    IN IF bound = <<>> THEN <<>>
       ELSE <<[namespace |-> bound[1].namespace, name |-> bound[1].name]>>

PVsFor(list) ==
    [n \in PVNames |->
        [name |-> n, reclaimPolicy |-> ReclaimPolicyOf[n],
         claimRef |-> ClaimRefOf(list, n), labels |-> <<>>]]

----------------------------------------------------------------------------
\* Cluster reads.  Every read is one call on the API server made under the
\* request context ctx.  ctx carries the deadline (the context has expired
\* once ctx.after reads have completed, when ctx.expires) and the kinds of
\* read the API server fails during this request (ctx.faults).  A read
\* returns its result, its error and the read log extended by itself.

ReadOps == {"ListPVCs", "GetPVC", "GetPV", "ListSnapshots", "GetSnapshotClass"}

ReadErr(ctx, rds, op, notFound) ==
    IF ctx.expires /\ Len(rds) >= ctx.after THEN <<"context deadline exceeded">>
    ELSE IF op \in ctx.faults THEN <<"the server is currently unable to handle the request">>
    ELSE IF notFound THEN <<"not found">>
    ELSE <<>>

Logged(rds, op, key, err) == Append(rds, [op |-> op, key |-> key, err |-> err])

\* rc.client.CoreV1().PersistentVolumeClaims(namespace).List
ListPVCs(rc, ctx, rds, namespace) ==
    LET Result(err) ==
            [err |-> err,
             items |-> IF err = <<>> THEN SelectSeq(rc.client.pvcs,
                                           LAMBDA c : c.namespace = namespace)
                       ELSE <<>>,
             reads |-> Logged(rds, "ListPVCs", <<namespace>>, err)]
    IN  Result(ReadErr(ctx, rds, "ListPVCs", FALSE))

\* rc.client.CoreV1().PersistentVolumeClaims(namespace).Get
GetPVC(rc, ctx, rds, namespace, name) ==
    LET hits == SelectSeq(rc.client.pvcs,
                    LAMBDA c : c.namespace = namespace /\ c.name = name)
        Result(err) ==
            [err |-> err,
             pvc |-> IF err = <<>> THEN <<hits[1]>> ELSE <<>>,
             reads |-> Logged(rds, "GetPVC", <<namespace, name>>, err)]
    IN  Result(ReadErr(ctx, rds, "GetPVC", hits = <<>>))

\* rc.client.CoreV1().PersistentVolumes().Get
GetPV(rc, ctx, rds, name) ==
    LET Result(err) ==
            [err |-> err,
             pv |-> IF err = <<>> THEN <<rc.client.pvs[name]>> ELSE <<>>,
             reads |-> Logged(rds, "GetPV", <<name>>, err)]
    IN  Result(ReadErr(ctx, rds, "GetPV", name \notin DOMAIN rc.client.pvs))

\* sc.dynamicClient.Resource(volumeSnapshotGVR).Namespace(namespace).List
\* List of the snapshots of every namespace.
ListSnapshots_AllNamespaces(rc, ctx, rds, namespace) ==
    LET Result(err) ==
            [err |-> err,
             items |-> IF err = <<>> THEN rc.client.snapshots ELSE <<>>,
             reads |-> Logged(rds, "ListSnapshots", <<namespace>>, err)]
    IN  Result(ReadErr(ctx, rds, "ListSnapshots", FALSE))

ListSnapshots(rc, ctx, rds, namespace) ==
    LET Result(err) ==
            [err |-> err,
             items |-> IF err = <<>> THEN SelectSeq(rc.client.snapshots,
                                           LAMBDA s : s.namespace = namespace)
                       ELSE <<>>,
             reads |-> Logged(rds, "ListSnapshots", <<namespace>>, err)]
    IN  Result(ReadErr(ctx, rds, "ListSnapshots", FALSE))

\* sc.dynamicClient.Resource(snapshotClassGVR).Get
GetSnapshotClass(rc, ctx, rds, className) ==
    LET Result(err) ==
            [err |-> err,
             class |-> IF err = <<>> THEN <<rc.client.classes[className]>> ELSE <<>>,
             reads |-> Logged(rds, "GetSnapshotClass", <<className>>, err)]
    IN  Result(ReadErr(ctx, rds, "GetSnapshotClass",
                       className \notin DOMAIN rc.client.classes))

----------------------------------------------------------------------------
\* SnapshotChecker (snapshot.go)

getSnapshotClassDeletionPolicy(rc, ctx, rds, className) ==
    LET Got(got) ==
            IF got.err # <<>>
            THEN [policy |-> "", err |-> got.err, reads |-> got.reads]
            ELSE IF ~got.class[1].hasPolicy
            THEN [policy |-> UnknownDeletionPolicy, err |-> <<>>, reads |-> got.reads]
            ELSE [policy |-> got.class[1].deletionPolicy, err |-> <<>>,
                  reads |-> got.reads]
    IN  Got(GetSnapshotClass(rc, ctx, rds, className))

\* ScanSnapshots accepting the first ready snapshot of the claim, whatever
\* the deletion policy of its class.
RECURSIVE ScanSnapshots_AnyPolicy(_, _, _, _, _, _)
ScanSnapshots_AnyPolicy(rc, ctx, rds, items, i, pvcName) ==
    IF i > Len(items) THEN [found |-> FALSE, info |-> <<>>, err |-> <<>>, reads |-> rds]
    ELSE
    LET item == items[i]
        Judged(deletionPolicy, after) ==
            [found |-> TRUE,
             info |-> <<[name |-> item.name, namespace |-> item.namespace,
                         sourcePVC |-> item.sourcePVC[1], isReady |-> TRUE,
                         deletionPolicy |-> deletionPolicy]>>,
             err |-> <<>>, reads |-> after]
        Got(got) ==
            Judged(IF got.err = <<>> THEN got.policy ELSE UnknownDeletionPolicy,
                   got.reads)
    IN  IF item.sourcePVC = <<>> \/ item.sourcePVC # <<pvcName>>
        THEN ScanSnapshots_AnyPolicy(rc, ctx, rds, items, i + 1, pvcName)
        ELSE IF ~item.ready
        THEN ScanSnapshots_AnyPolicy(rc, ctx, rds, items, i + 1, pvcName)
        ELSE IF item.className # <<>> /\ item.className # <<"">>
        THEN Got(getSnapshotClassDeletionPolicy(rc, ctx, rds, item.className[1]))
        ELSE Judged(UnknownDeletionPolicy, rds)

\* ScanSnapshots returning the error of a class read that fails.
RECURSIVE ScanSnapshots_ClassErrorAborts(_, _, _, _, _, _)
ScanSnapshots_ClassErrorAborts(rc, ctx, rds, items, i, pvcName) ==
    IF i > Len(items) THEN [found |-> FALSE, info |-> <<>>, err |-> <<>>, reads |-> rds]
    ELSE
    LET item == items[i]
        Judged(deletionPolicy, after) ==
            IF deletionPolicy = "Retain"
            THEN [found |-> TRUE,
                  info |-> <<[name |-> item.name, namespace |-> item.namespace,
                              sourcePVC |-> item.sourcePVC[1], isReady |-> TRUE,
                              deletionPolicy |-> deletionPolicy]>>,
                  err |-> <<>>, reads |-> after]
            ELSE ScanSnapshots_ClassErrorAborts(rc, ctx, after, items, i + 1, pvcName)
        Got(got) ==
            IF got.err # <<>>
            THEN [found |-> FALSE, info |-> <<>>, err |-> got.err, reads |-> got.reads]
            ELSE Judged(got.policy, got.reads)
    IN  IF item.sourcePVC = <<>> \/ item.sourcePVC # <<pvcName>>
        THEN ScanSnapshots_ClassErrorAborts(rc, ctx, rds, items, i + 1, pvcName)
        ELSE IF ~item.ready
        THEN ScanSnapshots_ClassErrorAborts(rc, ctx, rds, items, i + 1, pvcName)
        ELSE IF item.className # <<>> /\ item.className # <<"">>
        THEN Got(getSnapshotClassDeletionPolicy(rc, ctx, rds, item.className[1]))
        ELSE Judged(UnknownDeletionPolicy, rds)

\* The loop of HasReadySnapshot over snapshots.Items, from item i on.
RECURSIVE ScanSnapshots(_, _, _, _, _, _)
ScanSnapshots(rc, ctx, rds, items, i, pvcName) ==
    IF i > Len(items) THEN [found |-> FALSE, info |-> <<>>, err |-> <<>>, reads |-> rds]
    ELSE
    LET item == items[i]
        Judged(deletionPolicy, after) ==
            IF deletionPolicy = "Retain"
            THEN [found |-> TRUE,
                  info |-> <<[name |-> item.name, namespace |-> item.namespace,
                              sourcePVC |-> item.sourcePVC[1], isReady |-> TRUE,
                              deletionPolicy |-> deletionPolicy]>>,
                  err |-> <<>>, reads |-> after]
            ELSE ScanSnapshots(rc, ctx, after, items, i + 1, pvcName)
        Got(got) ==
            Judged(IF got.err = <<>> THEN got.policy ELSE UnknownDeletionPolicy,
                   got.reads)
    IN  IF item.sourcePVC = <<>> \/ item.sourcePVC # <<pvcName>>
        THEN ScanSnapshots(rc, ctx, rds, items, i + 1, pvcName)
        ELSE IF ~item.ready
        THEN ScanSnapshots(rc, ctx, rds, items, i + 1, pvcName)
        ELSE IF item.className # <<>> /\ item.className # <<"">>
        THEN Got(getSnapshotClassDeletionPolicy(rc, ctx, rds, item.className[1]))
        ELSE Judged(UnknownDeletionPolicy, rds)

HasReadySnapshot(rc, ctx, rds, namespace, pvcName) ==
    LET Listed(listed) ==
            IF listed.err # <<>>
            THEN [found |-> FALSE, info |-> <<>>,
                  err |-> <<"failed to list volumesnapshots (CSI snapshots may not be available): ">>
                          \o listed.err,
                  reads |-> listed.reads]
            ELSE ScanSnapshots(rc, ctx, listed.reads, listed.items, 1, pvcName)
    IN  Listed(ListSnapshots(rc, ctx, rds, namespace))

----------------------------------------------------------------------------
\* RiskCalculator (client.go)

\* isPVRisky whose default case answers "not risky".
isPVRisky_DefaultSafe(pv) ==
    IF pv.reclaimPolicy = PersistentVolumeReclaimRetain THEN FALSE
    ELSE IF pv.reclaimPolicy = PersistentVolumeReclaimDelete THEN TRUE
    ELSE FALSE

isPVRisky(pv) ==
    IF pv.reclaimPolicy = PersistentVolumeReclaimRetain THEN FALSE
    ELSE IF pv.reclaimPolicy = PersistentVolumeReclaimDelete THEN TRUE
    ELSE TRUE

\* isPVCRisky taking the bypass label on the PV for a reason to let the
\* claim go.
isPVCRisky_PVLabelBypasses(rc, ctx, rds, namespace, pvcName, pv) ==
    LET Risky(after) ==
            [isRisky |-> TRUE,
             reason |-> <<"PV has ", pv.reclaimPolicy,
                          " reclaim policy, no snapshot found">>,
             snapshotInfo |-> <<>>, reads |-> after]
        Probed(probe) ==
            IF probe.err = <<>> /\ probe.found /\ probe.info # <<>>
            THEN [isRisky |-> FALSE,
                  reason |-> <<"Ready VolumeSnapshot '", probe.info[1].name,
                               "' exists with Retain policy">>,
                  snapshotInfo |-> probe.info, reads |-> probe.reads]
            ELSE Risky(probe.reads)
    IN  IF \/ pv.reclaimPolicy = PersistentVolumeReclaimRetain
           \/ pv.labels = <<(BypassLabel :> "true")>>
        THEN [isRisky |-> FALSE, reason |-> <<"PV has Retain reclaim policy">>,
              snapshotInfo |-> <<>>, reads |-> rds]
        ELSE IF rc.snapshotChecker # <<>>
        THEN Probed(HasReadySnapshot(rc, ctx, rds, namespace, pvcName))
        ELSE Risky(rds)

\* other policy is taken for safe.
isPVCRisky_OnlyDelete(rc, ctx, rds, namespace, pvcName, pv) ==
    LET Risky(after) ==
            [isRisky |-> TRUE,
             reason |-> <<"PV has ", pv.reclaimPolicy,
                          " reclaim policy, no snapshot found">>,
             snapshotInfo |-> <<>>, reads |-> after]
        Probed(probe) ==
            IF probe.err = <<>> /\ probe.found /\ probe.info # <<>>
            THEN [isRisky |-> FALSE,
                  reason |-> <<"Ready VolumeSnapshot '", probe.info[1].name,
                               "' exists with Retain policy">>,
                  snapshotInfo |-> probe.info, reads |-> probe.reads]
            ELSE Risky(probe.reads)
    IN  IF pv.reclaimPolicy # PersistentVolumeReclaimDelete
        THEN [isRisky |-> FALSE, reason |-> <<"PV has Retain reclaim policy">>,
              snapshotInfo |-> <<>>, reads |-> rds]
        ELSE IF rc.snapshotChecker # <<>>
        THEN Probed(HasReadySnapshot(rc, ctx, rds, namespace, pvcName))
        ELSE Risky(rds)

\* isPVCRisky without the early exit on a Retain policy: a snapshot is
\* looked for whatever the policy.
isPVCRisky_NoRetainExit(rc, ctx, rds, namespace, pvcName, pv) ==
    LET Risky(after) ==
            [isRisky |-> TRUE,
             reason |-> <<"PV has ", pv.reclaimPolicy,
                          " reclaim policy, no snapshot found">>,
             snapshotInfo |-> <<>>, reads |-> after]
        Probed(probe) ==
            IF probe.err = <<>> /\ probe.found /\ probe.info # <<>>
            THEN [isRisky |-> FALSE,
                  reason |-> <<"Ready VolumeSnapshot '", probe.info[1].name,
                               "' exists with Retain policy">>,
                  snapshotInfo |-> probe.info, reads |-> probe.reads]
            ELSE Risky(probe.reads)
    IN  IF rc.snapshotChecker # <<>>
        THEN Probed(HasReadySnapshot(rc, ctx, rds, namespace, pvcName))
        ELSE Risky(rds)

\* isPVCRisky that takes a snapshot probe which returned an error for a
\* probe that found a snapshot.
isPVCRisky_ProbeErrorSafe(rc, ctx, rds, namespace, pvcName, pv) ==
    LET Risky(after) ==
            [isRisky |-> TRUE,
             reason |-> <<"PV has ", pv.reclaimPolicy,
                          " reclaim policy, no snapshot found">>,
             snapshotInfo |-> <<>>, reads |-> after]
        Probed(probe) ==
            IF probe.err # <<>> \/ (probe.found /\ probe.info # <<>>)
            THEN [isRisky |-> FALSE,
                  reason |-> <<"Ready VolumeSnapshot exists with Retain policy">>,
                  snapshotInfo |-> probe.info, reads |-> probe.reads]
            ELSE Risky(probe.reads)
    IN  IF pv.reclaimPolicy = PersistentVolumeReclaimRetain
        THEN [isRisky |-> FALSE, reason |-> <<"PV has Retain reclaim policy">>,
              snapshotInfo |-> <<>>, reads |-> rds]
        ELSE IF rc.snapshotChecker # <<>>
        THEN Probed(HasReadySnapshot(rc, ctx, rds, namespace, pvcName))
        ELSE Risky(rds)

\* isPVCRisky probing for a snapshot before it looks at the reclaim policy.
isPVCRisky_ProbesFirst(rc, ctx, rds, namespace, pvcName, pv) ==
    LET Risky(after) ==
            [isRisky |-> TRUE,
             reason |-> <<"PV has ", pv.reclaimPolicy,
                          " reclaim policy, no snapshot found">>,
             snapshotInfo |-> <<>>, reads |-> after]
        Probed(probe) ==
            IF probe.err = <<>> /\ probe.found /\ probe.info # <<>>
            THEN [isRisky |-> FALSE,
                  reason |-> <<"Ready VolumeSnapshot '", probe.info[1].name,
                               "' exists with Retain policy">>,
                  snapshotInfo |-> probe.info, reads |-> probe.reads]
            ELSE Risky(probe.reads)
        Kept(verdict) ==
            IF pv.reclaimPolicy = PersistentVolumeReclaimRetain
            THEN [isRisky |-> FALSE, reason |-> <<"PV has Retain reclaim policy">>,
                  snapshotInfo |-> <<>>, reads |-> verdict.reads]
            ELSE verdict
    IN  IF rc.snapshotChecker # <<>>
        THEN Kept(Probed(HasReadySnapshot(rc, ctx, rds, namespace, pvcName)))
        ELSE Kept(Risky(rds))

isPVCRisky(rc, ctx, rds, namespace, pvcName, pv) ==
    LET Risky(after) ==
            [isRisky |-> TRUE,
             reason |-> <<"PV has ", pv.reclaimPolicy,
                          " reclaim policy, no snapshot found">>,
             snapshotInfo |-> <<>>, reads |-> after]
        Probed(probe) ==
            IF probe.err = <<>> /\ probe.found /\ probe.info # <<>>
            THEN [isRisky |-> FALSE,
                  reason |-> <<"Ready VolumeSnapshot '", probe.info[1].name,
                               "' exists with Retain policy">>,
                  snapshotInfo |-> probe.info, reads |-> probe.reads]
            ELSE Risky(probe.reads)
    IN  IF pv.reclaimPolicy = PersistentVolumeReclaimRetain
        THEN [isRisky |-> FALSE, reason |-> <<"PV has Retain reclaim policy">>,
              snapshotInfo |-> <<>>, reads |-> rds]
        ELSE IF rc.snapshotChecker # <<>>
        THEN Probed(HasReadySnapshot(rc, ctx, rds, namespace, pvcName))
        ELSE Risky(rds)

\* The range loop of buildNamespaceBlockMessage: one line per risky PVC.
RECURSIVE RiskyLines(_)
RiskyLines(riskyPVCs) ==
    IF riskyPVCs = <<>> THEN <<>>
    ELSE <<"  - ", Head(riskyPVCs).name, ": ">> \o Head(riskyPVCs).reason \o <<"\n">>
         \o RiskyLines(Tail(riskyPVCs))

buildNamespaceBlockMessage(namespace, riskyPVCs) ==
    <<"DELETION BLOCKED: Namespace '", namespace, "' contains ",
      ToString(Len(riskyPVCs)), " PVC(s) that would lose data permanently\n\n",
      "Risky PVCs:\n">>
    \o RiskyLines(riskyPVCs)

buildPVCBlockMessage(risky) ==
    <<"DELETION BLOCKED: PVC '", risky.namespace, "/", risky.name,
      "' would lose data permanently\n\nReason: ">> \o risky.reason \o <<"\n">>

buildPVBlockMessage(pv, risky) ==
    <<"DELETION BLOCKED: PV '", pv.name,
      "' would lose data permanently\n\nReason: ">> \o risky.reason \o <<"\n">>
    \o IF risky.namespace # "" /\ risky.name # ""
       THEN <<"Bound to: ", risky.namespace, "/", risky.name, "\n">>
       ELSE <<>>

buildPVCSuggestions(namespace, pvcName, pvName) ==
    <<"\nTo safely delete this PVC:\n",
      "  1. Create a VolumeSnapshot of the data\n",
      "  2. OR change PV reclaim policy to Retain:\n",
      "     kubectl patch pv ", pvName,
      " -p '{\"spec\":{\"persistentVolumeReclaimPolicy\":\"Retain\"}}'\n",
      "\n  3. OR force delete (will lose data):\n",
      "     kubectl label pvc ", pvcName, " -n ", namespace,
      " pv-safe.io/force-delete=true\n",
      "     kubectl delete pvc ", pvcName, " -n ", namespace, "\n",
      "\n  4. Then retry the deletion\n">>

\* PatchLines of a loop that writes the patch commands last risky PVC first.
RECURSIVE PatchLines_LastFirst(_)
PatchLines_LastFirst(riskyPVCs) ==
    IF riskyPVCs = <<>> THEN <<>>
    ELSE PatchLines_LastFirst(Tail(riskyPVCs))
         \o <<"     kubectl patch pv ", Head(riskyPVCs).pvName,
              " -p '{\"spec\":{\"persistentVolumeReclaimPolicy\":\"Retain\"}}'\n">>

\* The range loop of buildSuggestions: one patch command per risky PVC.
RECURSIVE PatchLines(_)
PatchLines(riskyPVCs) ==
    IF riskyPVCs = <<>> THEN <<>>
    ELSE <<"     kubectl patch pv ", Head(riskyPVCs).pvName,
           " -p '{\"spec\":{\"persistentVolumeReclaimPolicy\":\"Retain\"}}'\n">>
         \o PatchLines(Tail(riskyPVCs))

buildSuggestions(namespace, riskyPVCs) ==
    <<"\nTo safely delete this resource:\n",
      "  1. Create VolumeSnapshots for the PVCs\n",
      "  2. OR change PV reclaim policy to Retain:\n">>
    \o PatchLines(riskyPVCs)
    \o <<"\n  3. OR force delete (will lose data):\n",
         "     kubectl label namespace ", namespace, " pv-safe.io/force-delete=true\n",
         "     kubectl delete namespace ", namespace, "\n",
         "\n  4. Then retry the deletion\n">>

buildPVSuggestions(pv) ==
    <<"\nTo safely delete this PV:\n",
      "  1. Create a VolumeSnapshot of the data\n",
      "  2. OR change reclaim policy to Retain:\n",
      "     kubectl patch pv ", pv.name,
      " -p '{\"spec\":{\"persistentVolumeReclaimPolicy\":\"Retain\"}}'\n",
      "\n  3. OR force delete (will lose data):\n",
      "     kubectl label pv ", pv.name, " pv-safe.io/force-delete=true\n",
      "     kubectl delete pv ", pv.name, "\n",
      "\n  4. Then retry the deletion\n">>

\* The RiskyPVC the assessments build from a risky isPVCRisky result.
NewRiskyPVC(namespace, name, pvName, verdict) ==
    [name |-> name, namespace |-> namespace, pvName |-> pvName,
     reason |-> verdict.reason,
     hasSnapshot |-> verdict.snapshotInfo # <<>>,
     snapshotInfo |-> IF verdict.snapshotInfo # <<>>
                      THEN verdict.snapshotInfo[1].name ELSE ""]

\* SweepPVCs leaving the loop at the first claim that is not Bound.
RECURSIVE SweepPVCs_StopAtUnbound(_, _, _, _, _, _)
SweepPVCs_StopAtUnbound(rc, ctx, rds, items, i, acc) ==
    IF i > Len(items) THEN [assessment |-> acc, reads |-> rds]
    ELSE
    LET pvc == items[i]
        Judged(pv, verdict) ==
            IF verdict.isRisky
            THEN SweepPVCs_StopAtUnbound(rc, ctx, verdict.reads, items, i + 1,
                     [acc EXCEPT !.isRisky = TRUE,
                                 !.riskyPVCs = Append(@,
                                     NewRiskyPVC(pvc.namespace, pvc.name,
                                                 pv.name, verdict))])
            ELSE SweepPVCs_StopAtUnbound(rc, ctx, verdict.reads, items, i + 1, acc)
        Got(got) ==
            IF got.err # <<>>
            THEN SweepPVCs_StopAtUnbound(rc, ctx, got.reads, items, i + 1, acc)
            ELSE Judged(got.pv[1],
                        isPVCRisky(rc, ctx, got.reads, pvc.namespace, pvc.name,
                                   got.pv[1]))
    IN  IF pvc.phase # ClaimBound
        THEN [assessment |-> acc, reads |-> rds]
        ELSE Got(GetPV(rc, ctx, rds, pvc.volumeName))

\* SweepPVCs raising the risky flag for a claim whose PV cannot be read,
\* without an entry for it in the list.
RECURSIVE SweepPVCs_FlagsUnreadable(_, _, _, _, _, _)
SweepPVCs_FlagsUnreadable(rc, ctx, rds, items, i, acc) ==
    IF i > Len(items) THEN [assessment |-> acc, reads |-> rds]
    ELSE
    LET pvc == items[i]
        Judged(pv, verdict) ==
            IF verdict.isRisky
            THEN SweepPVCs_FlagsUnreadable(rc, ctx, verdict.reads, items, i + 1,
                     [acc EXCEPT !.isRisky = TRUE,
                                 !.riskyPVCs = Append(@,
                                     NewRiskyPVC(pvc.namespace, pvc.name,
                                                 pv.name, verdict))])
            ELSE SweepPVCs_FlagsUnreadable(rc, ctx, verdict.reads, items, i + 1, acc)
        Got(got) ==
            IF got.err # <<>>
            THEN SweepPVCs_FlagsUnreadable(rc, ctx, got.reads, items, i + 1,
                     [acc EXCEPT !.isRisky = TRUE])
            ELSE Judged(got.pv[1],
                        isPVCRisky(rc, ctx, got.reads, pvc.namespace, pvc.name,
                                   got.pv[1]))
    IN  IF pvc.phase # ClaimBound
        THEN SweepPVCs_FlagsUnreadable(rc, ctx, rds, items, i + 1, acc)
        ELSE Got(GetPV(rc, ctx, rds, pvc.volumeName))

\* The loop of AssessNamespaceDeletion over pvcs.Items, from item i on;
\* acc is the assessment built so far.
RECURSIVE SweepPVCs(_, _, _, _, _, _)
SweepPVCs(rc, ctx, rds, items, i, acc) ==
    IF i > Len(items) THEN [assessment |-> acc, reads |-> rds]
    ELSE
    LET pvc == items[i]
        Judged(pv, verdict) ==
            IF verdict.isRisky
            THEN SweepPVCs(rc, ctx, verdict.reads, items, i + 1,
                     [acc EXCEPT !.isRisky = TRUE,
                                 !.riskyPVCs = Append(@,
                                     NewRiskyPVC(pvc.namespace, pvc.name,
                                                 pv.name, verdict))])
            ELSE SweepPVCs(rc, ctx, verdict.reads, items, i + 1, acc)
        Got(got) ==
            IF got.err # <<>>
            THEN SweepPVCs(rc, ctx, got.reads, items, i + 1, acc)
            ELSE Judged(got.pv[1],
                        isPVCRisky(rc, ctx, got.reads, pvc.namespace, pvc.name,
                                   got.pv[1]))
    IN  IF pvc.phase # ClaimBound
        THEN SweepPVCs(rc, ctx, rds, items, i + 1, acc)
        ELSE Got(GetPV(rc, ctx, rds, pvc.volumeName))

AssessNamespaceDeletion(rc, ctx, namespace) ==
    LET Built(a, rds) ==
            [assessment |->
                <<IF a.isRisky
                  THEN [a EXCEPT
                          !.message = buildNamespaceBlockMessage(namespace, a.riskyPVCs),
                          !.suggestion = buildSuggestions(namespace, a.riskyPVCs)]
                  ELSE a>>,
             err |-> <<>>, reads |-> rds]
        Swept(swept) == Built(swept.assessment, swept.reads)
        Listed(listed) ==
            IF listed.err # <<>>
            THEN [assessment |-> <<>>,
                  err |-> <<"failed to list PVCs in namespace ", namespace, ": ">>
                          \o listed.err,
                  reads |-> listed.reads]
            ELSE IF Len(listed.items) = 0
            THEN [assessment |->
                    <<[isRisky |-> FALSE, riskyPVCs |-> <<>>,
                       message |-> <<"Namespace ", namespace, " has no PVCs">>,
                       suggestion |-> <<>>]>>,
                  err |-> <<>>, reads |-> listed.reads]
            ELSE Swept(SweepPVCs(rc, ctx, listed.reads, listed.items, 1,
                                 [isRisky |-> FALSE, riskyPVCs |-> <<>>,
                                  message |-> <<>>, suggestion |-> <<>>]))
    IN  Listed(ListPVCs(rc, ctx, <<>>, namespace))

\* AssessPVCDeletion from the read of the bound PV on: pvc is the claim
\* read, rds the reads made so far.
AssessBoundPVC(rc, ctx, rds, namespace, name, pvc) ==
    LET Judged(pv, verdict) ==
            [assessment |->
                <<IF verdict.isRisky
                  THEN [isRisky |-> TRUE,
                        riskyPVCs |-> <<NewRiskyPVC(namespace, name, pv.name, verdict)>>,
                        message |-> buildPVCBlockMessage(
                                        NewRiskyPVC(namespace, name, pv.name, verdict)),
                        suggestion |-> buildPVCSuggestions(namespace, name, pv.name)]
                  ELSE IF verdict.snapshotInfo # <<>>
                  THEN [isRisky |-> FALSE, riskyPVCs |-> <<>>,
                        message |-> verdict.reason, suggestion |-> <<>>]
                  ELSE [isRisky |-> FALSE, riskyPVCs |-> <<>>,
                        message |-> <<>>, suggestion |-> <<>>]>>,
             err |-> <<>>, reads |-> verdict.reads]
        Got(gotPV) ==
            IF gotPV.err # <<>>
            THEN [assessment |-> <<>>,
                  err |-> <<"failed to get PV ", pvc.volumeName, ": ">> \o gotPV.err,
                  reads |-> gotPV.reads]
            ELSE Judged(gotPV.pv[1],
                        isPVCRisky(rc, ctx, gotPV.reads, namespace, name, gotPV.pv[1]))
    IN  Got(GetPV(rc, ctx, rds, pvc.volumeName))

\* AssessPVCDeletion answering "not risky", with no error, for a claim that
\* cannot be read.
AssessPVCDeletion_UnreadableSafe(rc, ctx, namespace, name) ==
    LET Got(gotPVC) ==
            IF gotPVC.err # <<>>
            THEN [assessment |->
                    <<[isRisky |-> FALSE, riskyPVCs |-> <<>>,
                       message |-> <<"PVC ", namespace, "/", name, " not found">>,
                       suggestion |-> <<>>]>>,
                  err |-> <<>>, reads |-> gotPVC.reads]
            ELSE IF gotPVC.pvc[1].phase # ClaimBound
            THEN [assessment |->
                    <<[isRisky |-> FALSE, riskyPVCs |-> <<>>,
                       message |-> <<"PVC ", namespace, "/", name,
                                     " is not bound to a PV">>,
                       suggestion |-> <<>>]>>,
                  err |-> <<>>, reads |-> gotPVC.reads]
            ELSE AssessBoundPVC(rc, ctx, gotPVC.reads, namespace, name, gotPVC.pvc[1])
    IN  Got(GetPVC(rc, ctx, <<>>, namespace, name))

\* AssessPVCDeletion taking a claim for unbound when it names no volume,
\* instead of looking at its phase.
AssessPVCDeletion_ByVolumeName(rc, ctx, namespace, name) ==
    LET Got(gotPVC) ==
            IF gotPVC.err # <<>>
            THEN [assessment |-> <<>>,
                  err |-> <<"failed to get PVC ", namespace, "/", name, ": ">>
                          \o gotPVC.err,
                  reads |-> gotPVC.reads]
            ELSE IF gotPVC.pvc[1].volumeName = ""
            THEN [assessment |->
                    <<[isRisky |-> FALSE, riskyPVCs |-> <<>>,
                       message |-> <<"PVC ", namespace, "/", name,
                                     " is not bound to a PV">>,
                       suggestion |-> <<>>]>>,
                  err |-> <<>>, reads |-> gotPVC.reads]
            ELSE AssessBoundPVC(rc, ctx, gotPVC.reads, namespace, name, gotPVC.pvc[1])
    IN  Got(GetPVC(rc, ctx, <<>>, namespace, name))

AssessPVCDeletion(rc, ctx, namespace, name) ==
    LET Got(gotPVC) ==
            IF gotPVC.err # <<>>
            THEN [assessment |-> <<>>,
                  err |-> <<"failed to get PVC ", namespace, "/", name, ": ">>
                          \o gotPVC.err,
                  reads |-> gotPVC.reads]
            ELSE IF gotPVC.pvc[1].phase # ClaimBound
            THEN [assessment |->
                    <<[isRisky |-> FALSE, riskyPVCs |-> <<>>,
                       message |-> <<"PVC ", namespace, "/", name,
                                     " is not bound to a PV">>,
                       suggestion |-> <<>>]>>,
                  err |-> <<>>, reads |-> gotPVC.reads]
            ELSE AssessBoundPVC(rc, ctx, gotPVC.reads, namespace, name, gotPVC.pvc[1])
    IN  Got(GetPVC(rc, ctx, <<>>, namespace, name))

AssessPVDeletion(rc, ctx, pvName) ==
    LET Judged(pv, riskyPVC, rds) ==
            [assessment |->
                <<IF isPVRisky(pv)
                  THEN [isRisky |-> TRUE, riskyPVCs |-> <<riskyPVC>>,
                        message |-> buildPVBlockMessage(pv, riskyPVC),
                        suggestion |-> buildPVSuggestions(pv)]
                  ELSE [isRisky |-> FALSE, riskyPVCs |-> <<>>,
                        message |-> <<>>, suggestion |-> <<>>]>>,
             err |-> <<>>, reads |-> rds]
        Read(pv, rds) ==
            Judged(pv,
                   [name |-> IF pv.claimRef # <<>> THEN pv.claimRef[1].name ELSE "",
                    namespace |-> IF pv.claimRef # <<>>
                                  THEN pv.claimRef[1].namespace ELSE "",
                    pvName |-> pv.name,
                    reason |-> <<"PV has ", pv.reclaimPolicy,
                                 " reclaim policy, no snapshot found">>,
                    hasSnapshot |-> FALSE, snapshotInfo |-> ""],
                   rds)
        Got(got) ==
            IF got.err # <<>>
            THEN [assessment |-> <<>>,
                  err |-> <<"failed to get PV ", pvName, ": ">> \o got.err,
                  reads |-> got.reads]
            ELSE Read(got.pv[1], got.reads)
    IN  Got(GetPV(rc, ctx, <<>>, pvName))

----------------------------------------------------------------------------
\* Handler (handler.go, listed in docs/ARCHITECTURE.md)

\* json.Unmarshal of request.OldObject.Raw into an unstructured object:
\* the bytes either are a JSON object, whose metadata.labels is absent or a
\* map, or they do not parse.
Unmarshal(raw) ==
    IF raw.wellFormed THEN [err |-> <<>>, labels |-> raw.labels]
    ELSE [err |-> <<"invalid character">>, labels |-> <<>>]

\* hasBypassLabel looking the label up under the key "force-delete".
hasBypassLabel_WrongKey(request) ==
    LET Parsed(obj) ==
            IF obj.err # <<>>
            THEN [bypass |-> FALSE,
                  logs |-> <<<<"Warning: Failed to parse OldObject for bypass check: ">>
                             \o obj.err>>]
            ELSE IF obj.labels = <<>>
            THEN [bypass |-> FALSE, logs |-> <<>>]
            ELSE [bypass |-> /\ "force-delete" \in DOMAIN obj.labels[1]
                             /\ obj.labels[1]["force-delete"] = "true",
                  logs |-> <<>>]
    IN  IF request.oldObject = <<>> THEN [bypass |-> FALSE, logs |-> <<>>]
        ELSE Parsed(Unmarshal(request.oldObject[1]))

\* hasBypassLabel satisfied by the presence of the label, whatever its
\* value.
hasBypassLabel_AnyValue(request) ==
    LET Parsed(obj) ==
            IF obj.err # <<>>
            THEN [bypass |-> FALSE,
                  logs |-> <<<<"Warning: Failed to parse OldObject for bypass check: ">>
                             \o obj.err>>]
            ELSE IF obj.labels = <<>>
            THEN [bypass |-> FALSE, logs |-> <<>>]
            ELSE [bypass |-> BypassLabel \in DOMAIN obj.labels[1], logs |-> <<>>]
    IN  IF request.oldObject = <<>> THEN [bypass |-> FALSE, logs |-> <<>>]
        ELSE Parsed(Unmarshal(request.oldObject[1]))

\* hasBypassLabel that goes on to the labels written in bytes that did not
\* parse.
hasBypassLabel_IgnoresParseError(request) ==
    LET Labelled(labels) ==
            IF labels = <<>>
            THEN [bypass |-> FALSE, logs |-> <<>>]
            ELSE [bypass |-> /\ BypassLabel \in DOMAIN labels[1]
                             /\ labels[1][BypassLabel] = "true",
                  logs |-> <<>>]
    IN  IF request.oldObject = <<>> THEN [bypass |-> FALSE, logs |-> <<>>]
        ELSE Labelled(request.oldObject[1].labels)

hasBypassLabel(request) ==
    LET Parsed(obj) ==
            IF obj.err # <<>>
            THEN [bypass |-> FALSE,
                  logs |-> <<<<"Warning: Failed to parse OldObject for bypass check: ">>
                             \o obj.err>>]
            ELSE IF obj.labels = <<>>
            THEN [bypass |-> FALSE, logs |-> <<>>]
            ELSE [bypass |-> /\ BypassLabel \in DOMAIN obj.labels[1]
                             /\ obj.labels[1][BypassLabel] = "true",
                  logs |-> <<>>]
    IN  IF request.oldObject = <<>> THEN [bypass |-> FALSE, logs |-> <<>>]
        ELSE Parsed(Unmarshal(request.oldObject[1]))

logDeletion(request) ==
    LET kind == request.kind
        namespace == request.namespace
        name == request.name
        user == request.username
    IN  IF kind = "Namespace"
        THEN << <<"DELETE NAMESPACE detected!">>,
                <<"  Namespace: ", name>>,
                <<"  User: ", user>>,
                <<"  Action: Deletion of namespace '", name, "' is being attempted">> >>
        ELSE IF kind = "PersistentVolumeClaim"
        THEN << <<"DELETE PVC detected!">>,
                <<"  PVC: ", namespace, "/", name>>,
                <<"  User: ", user>>,
                <<"  Action: Deletion of PVC '", name, "' in namespace '", namespace,
                  "' is being attempted">> >>
        ELSE IF kind = "PersistentVolume"
        THEN << <<"DELETE PV detected!">>,
                <<"  PV: ", name>>,
                <<"  User: ", user>>,
                <<"  Action: Deletion of PV '", name, "' is being attempted">> >>
        ELSE << <<"DELETE ", kind, " detected: ", namespace, "/", name, " by ", user>> >>

\* assessAndDecide assessing an object of any other kind as a claim.
assessAndDecide_UnknownKindAsPVC(rc, ctx, request) ==
    LET kind == request.kind
        namespace == request.namespace
        name == request.name
        Decided(intro, assessment, rds) ==
            IF assessment.isRisky
            THEN [response |->
                    [uid |-> request.uid, allowed |-> FALSE,
                     result |-> <<[status |-> "Failure", reason |-> "Forbidden",
                                   code |-> 403,
                                   message |-> assessment.message
                                               \o assessment.suggestion]>>],
                  reads |-> rds,
                  logs |-> intro \o
                           << <<"BLOCKING: Risky deletion detected!">>,
                              <<"  Reason: ">> \o assessment.message,
                              <<"  Risky PVCs: ",
                                ToString(Len(assessment.riskyPVCs))>> >>]
            ELSE [response |->
                    [uid |-> request.uid, allowed |-> TRUE,
                     result |-> <<[status |-> "", reason |-> "", code |-> 0,
                                   message |-> <<"Deletion allowed - safe operation">>]>>],
                  reads |-> rds,
                  logs |-> intro \o
                           << <<"ALLOWING: Deletion is safe">> >> \o
                           IF assessment.message # <<>>
                           THEN << <<"  Reason: ">> \o assessment.message >>
                           ELSE <<>>]
        Assessed(intro, assessed) ==
            IF assessed.err # <<>>
            THEN [response |->
                    [uid |-> request.uid, allowed |-> TRUE,
                     result |-> <<[status |-> "", reason |-> "", code |-> 0,
                                   message |-> <<"Risk assessment error (allowed): ">>
                                               \o assessed.err]>>],
                  reads |-> assessed.reads,
                  logs |-> intro \o
                           << <<"ERROR: Risk assessment failed: ">> \o assessed.err >>]
            ELSE Decided(intro, assessed.assessment[1], assessed.reads)
        Assess(intro) ==
            IF kind = "Namespace"
            THEN Assessed(intro, AssessNamespaceDeletion(rc, ctx, name))
            ELSE IF kind = "PersistentVolumeClaim"
            THEN Assessed(intro, AssessPVCDeletion(rc, ctx, namespace, name))
            ELSE IF kind = "PersistentVolume"
            THEN Assessed(intro, AssessPVDeletion(rc, ctx, name))
            ELSE Assessed(intro, AssessPVCDeletion(rc, ctx, namespace, name))
        Checked(checked) ==
            IF checked.bypass
            THEN [response |->
                    [uid |-> request.uid, allowed |-> TRUE,
                     result |-> <<[status |-> "", reason |-> "", code |-> 0,
                                   message |-> <<"Deletion allowed via bypass label ",
                                                 BypassLabel>>]>>],
                  reads |-> <<>>,
                  logs |-> checked.logs \o
                           << <<"BYPASS: Force delete label found on ", kind, " ",
                                namespace, "/", name>>,
                              <<"  User: ", request.username>>,
                              <<"  Allowing deletion despite potential data loss">> >>]
            ELSE Assess(checked.logs \o
                        << <<"Assessing risk for ", kind, " deletion: ",
                             namespace, "/", name>> >>)
    IN  Checked(hasBypassLabel(request))

\* assessAndDecide denying without a line in the log.
assessAndDecide_SilentDeny(rc, ctx, request) ==
    LET kind == request.kind
        namespace == request.namespace
        name == request.name
        Decided(intro, assessment, rds) ==
            IF assessment.isRisky
            THEN [response |->
                    [uid |-> request.uid, allowed |-> FALSE,
                     result |-> <<[status |-> "Failure", reason |-> "Forbidden",
                                   code |-> 403,
                                   message |-> assessment.message
                                               \o assessment.suggestion]>>],
                  reads |-> rds,
                  logs |-> intro]
            ELSE [response |->
                    [uid |-> request.uid, allowed |-> TRUE,
                     result |-> <<[status |-> "", reason |-> "", code |-> 0,
                                   message |-> <<"Deletion allowed - safe operation">>]>>],
                  reads |-> rds,
                  logs |-> intro \o
                           << <<"ALLOWING: Deletion is safe">> >> \o
                           IF assessment.message # <<>>
                           THEN << <<"  Reason: ">> \o assessment.message >>
                           ELSE <<>>]
        Assessed(intro, assessed) ==
            IF assessed.err # <<>>
            THEN [response |->
                    [uid |-> request.uid, allowed |-> TRUE,
                     result |-> <<[status |-> "", reason |-> "", code |-> 0,
                                   message |-> <<"Risk assessment error (allowed): ">>
                                               \o assessed.err]>>],
                  reads |-> assessed.reads,
                  logs |-> intro \o
                           << <<"ERROR: Risk assessment failed: ">> \o assessed.err >>]
            ELSE Decided(intro, assessed.assessment[1], assessed.reads)
        Assess(intro) ==
            IF kind = "Namespace"
            THEN Assessed(intro, AssessNamespaceDeletion(rc, ctx, name))
            ELSE IF kind = "PersistentVolumeClaim"
            THEN Assessed(intro, AssessPVCDeletion(rc, ctx, namespace, name))
            ELSE IF kind = "PersistentVolume"
            THEN Assessed(intro, AssessPVDeletion(rc, ctx, name))
            ELSE [response |-> [uid |-> request.uid, allowed |-> TRUE, result |-> <<>>],
                  reads |-> <<>>,
                  logs |-> intro \o << <<"Unknown resource type ", kind, " - allowing">> >>]
        Checked(checked) ==
            IF checked.bypass
            THEN [response |->
                    [uid |-> request.uid, allowed |-> TRUE,
                     result |-> <<[status |-> "", reason |-> "", code |-> 0,
                                   message |-> <<"Deletion allowed via bypass label ",
                                                 BypassLabel>>]>>],
                  reads |-> <<>>,
                  logs |-> checked.logs \o
                           << <<"BYPASS: Force delete label found on ", kind, " ",
                                namespace, "/", name>>,
                              <<"  User: ", request.username>>,
                              <<"  Allowing deletion despite potential data loss">> >>]
            ELSE Assess(checked.logs \o
                        << <<"Assessing risk for ", kind, " deletion: ",
                             namespace, "/", name>> >>)
    IN  Checked(hasBypassLabel(request))

assessAndDecide(rc, ctx, request) ==
    LET kind == request.kind
        namespace == request.namespace
        name == request.name
        Decided(intro, assessment, rds) ==
            IF assessment.isRisky
            THEN [response |->
                    [uid |-> request.uid, allowed |-> FALSE,
                     result |-> <<[status |-> "Failure", reason |-> "Forbidden",
                                   code |-> 403,
                                   message |-> assessment.message
                                               \o assessment.suggestion]>>],
                  reads |-> rds,
                  logs |-> intro \o
                           << <<"BLOCKING: Risky deletion detected!">>,
                              <<"  Reason: ">> \o assessment.message,
                              <<"  Risky PVCs: ",
                                ToString(Len(assessment.riskyPVCs))>> >>]
            ELSE [response |->
                    [uid |-> request.uid, allowed |-> TRUE,
                     result |-> <<[status |-> "", reason |-> "", code |-> 0,
                                   message |-> <<"Deletion allowed - safe operation">>]>>],
                  reads |-> rds,
                  logs |-> intro \o
                           << <<"ALLOWING: Deletion is safe">> >> \o
                           IF assessment.message # <<>>
                           THEN << <<"  Reason: ">> \o assessment.message >>
                           ELSE <<>>]
        Assessed(intro, assessed) ==
            IF assessed.err # <<>>
            THEN [response |->
                    [uid |-> request.uid, allowed |-> TRUE,
                     result |-> <<[status |-> "", reason |-> "", code |-> 0,
                                   message |-> <<"Risk assessment error (allowed): ">>
                                               \o assessed.err]>>],
                  reads |-> assessed.reads,
                  logs |-> intro \o
                           << <<"ERROR: Risk assessment failed: ">> \o assessed.err >>]
            ELSE Decided(intro, assessed.assessment[1], assessed.reads)
        Assess(intro) ==
            IF kind = "Namespace"
            THEN Assessed(intro, AssessNamespaceDeletion(rc, ctx, name))
            ELSE IF kind = "PersistentVolumeClaim"
            THEN Assessed(intro, AssessPVCDeletion(rc, ctx, namespace, name))
            ELSE IF kind = "PersistentVolume"
            THEN Assessed(intro, AssessPVDeletion(rc, ctx, name))
            ELSE [response |-> [uid |-> request.uid, allowed |-> TRUE, result |-> <<>>],
                  reads |-> <<>>,
                  logs |-> intro \o << <<"Unknown resource type ", kind, " - allowing">> >>]
        Checked(checked) ==
            IF checked.bypass
            THEN [response |->
                    [uid |-> request.uid, allowed |-> TRUE,
                     result |-> <<[status |-> "", reason |-> "", code |-> 0,
                                   message |-> <<"Deletion allowed via bypass label ",
                                                 BypassLabel>>]>>],
                  reads |-> <<>>,
                  logs |-> checked.logs \o
                           << <<"BYPASS: Force delete label found on ", kind, " ",
                                namespace, "/", name>>,
                              <<"  User: ", request.username>>,
                              <<"  Allowing deletion despite potential data loss">> >>]
            ELSE Assess(checked.logs \o
                        << <<"Assessing risk for ", kind, " deletion: ",
                             namespace, "/", name>> >>)
    IN  Checked(hasBypassLabel(request))

\* handleAdmissionRequest assessing every operation but CREATE.
handleAdmissionRequest_AllButCreate(rc, ctx, request) ==
    LET details ==
            << <<"Admission Request Details:">>,
               <<"  UID: ", request.uid>>,
               <<"  Operation: ", request.operation>>,
               <<"  Kind: ", request.kind>>,
               <<"  Namespace: ", request.namespace>>,
               <<"  Name: ", request.name>>,
               <<"  User: ", request.username>> >>
    IN  IF request.operation # "CREATE"
        THEN LET decided == assessAndDecide(rc, ctx, request)
             IN  [decided EXCEPT !.logs = details \o logDeletion(request) \o @]
        ELSE [response |->
                [uid |-> request.uid, allowed |-> TRUE,
                 result |-> <<[status |-> "", reason |-> "", code |-> 0,
                               message |-> <<"Request allowed">>]>>],
              reads |-> <<>>,
              logs |-> details]

\* handleAdmissionRequest leaving the UID of the response to a request that
\* is not a DELETE unset.
handleAdmissionRequest_NoUID(rc, ctx, request) ==
    LET details ==
            << <<"Admission Request Details:">>,
               <<"  UID: ", request.uid>>,
               <<"  Operation: ", request.operation>>,
               <<"  Kind: ", request.kind>>,
               <<"  Namespace: ", request.namespace>>,
               <<"  Name: ", request.name>>,
               <<"  User: ", request.username>> >>
    IN  IF request.operation = Delete
        THEN LET decided == assessAndDecide(rc, ctx, request)
             IN  [decided EXCEPT !.logs = details \o logDeletion(request) \o @]
        ELSE [response |->
                [uid |-> "", allowed |-> TRUE,
                 result |-> <<[status |-> "", reason |-> "", code |-> 0,
                               message |-> <<"Request allowed">>]>>],
              reads |-> <<>>,
              logs |-> details]

handleAdmissionRequest(rc, ctx, request) ==
    LET details ==
            << <<"Admission Request Details:">>,
               <<"  UID: ", request.uid>>,
               <<"  Operation: ", request.operation>>,
               <<"  Kind: ", request.kind>>,
               <<"  Namespace: ", request.namespace>>,
               <<"  Name: ", request.name>>,
               <<"  User: ", request.username>> >>
    IN  IF request.operation = Delete
        THEN LET decided == assessAndDecide(rc, ctx, request)
             IN  [decided EXCEPT !.logs = details \o logDeletion(request) \o @]
        ELSE [response |->
                [uid |-> request.uid, allowed |-> TRUE,
                 result |-> <<[status |-> "", reason |-> "", code |-> 0,
                               message |-> <<"Request allowed">>]>>],
              reads |-> <<>>,
              logs |-> details]

\* A RiskCalculator whose snapshot checker is a field the executions take
\* and give back: it is nil while an execution holds a reply it has not
\* returned from.
RiskCalculator_CheckerTaken ==
    [client |-> [pvcs |-> pvcs, pvs |-> pvs, snapshots |-> snapshots,
                 classes |-> classes],
     snapshotChecker |-> IF \E h \in DOMAIN handlers : handlers[h].reply # <<>>
                         THEN <<>> ELSE snapshotChecker]

\* The RiskCalculator NewHandler builds over the cluster and the checker.
RiskCalculator ==
    [client |-> [pvcs |-> pvcs, pvs |-> pvs, snapshots |-> snapshots,
                 classes |-> classes],
     snapshotChecker |-> snapshotChecker]

\* ServeHTTP answering a denial with the HTTP status 403.
Served_DenyAsForbidden(rc, ctx, r) ==
    LET received == << <<"Received request: ", r.method, " ", r.path>> >>
        Handled(handled) ==
            [reply |-> [code |-> IF handled.response.allowed THEN 200 ELSE 403,
                        text |-> "",
                        review |-> <<[apiVersion |-> "admission.k8s.io/v1",
                                      kind |-> "AdmissionReview",
                                      response |-> <<handled.response>>]>>],
             reads |-> handled.reads,
             logs |-> received \o handled.logs]
    IN
    IF r.method # MethodPost
    THEN [reply |-> [code |-> 405, text |-> "Method not allowed", review |-> <<>>],
          reads |-> <<>>,
          logs |-> received \o << <<"Invalid method: ", r.method>> >>]
    ELSE IF ~r.body.readable
    THEN [reply |-> [code |-> 400, text |-> "Error reading request body", review |-> <<>>],
          reads |-> <<>>,
          logs |-> received \o << <<"Error reading request body: ", "unexpected EOF">> >>]
    ELSE IF ~r.body.wellFormed
    THEN [reply |-> [code |-> 400, text |-> "Error parsing admission review", review |-> <<>>],
          reads |-> <<>>,
          logs |-> received \o
                   << <<"Error unmarshaling admission review: ", "invalid character">> >>]
    ELSE IF r.body.request = <<>>
    THEN [reply |-> [code |-> 400, text |-> "Invalid admission review", review |-> <<>>],
          reads |-> <<>>,
          logs |-> received \o << <<"Admission review request is nil">> >>]
    ELSE Handled(handleAdmissionRequest(rc, ctx, r.body.request[1]))

\* ServeHTTP serving a request of any method.
Served_AnyMethod(rc, ctx, r) ==
    LET received == << <<"Received request: ", r.method, " ", r.path>> >>
        Handled(handled) ==
            [reply |-> [code |-> 200, text |-> "",
                        review |-> <<[apiVersion |-> "admission.k8s.io/v1",
                                      kind |-> "AdmissionReview",
                                      response |-> <<handled.response>>]>>],
             reads |-> handled.reads,
             logs |-> received \o handled.logs]
    IN
    IF ~r.body.readable
    THEN [reply |-> [code |-> 400, text |-> "Error reading request body", review |-> <<>>],
          reads |-> <<>>,
          logs |-> received \o << <<"Error reading request body: ", "unexpected EOF">> >>]
    ELSE IF ~r.body.wellFormed
    THEN [reply |-> [code |-> 400, text |-> "Error parsing admission review", review |-> <<>>],
          reads |-> <<>>,
          logs |-> received \o
                   << <<"Error unmarshaling admission review: ", "invalid character">> >>]
    ELSE IF r.body.request = <<>>
    THEN [reply |-> [code |-> 400, text |-> "Invalid admission review", review |-> <<>>],
          reads |-> <<>>,
          logs |-> received \o << <<"Admission review request is nil">> >>]
    ELSE Handled(handleAdmissionRequest(rc, ctx, r.body.request[1]))

\* What ServeHTTP writes for request r, the reads it makes and the lines it
\* logs.
Served(rc, ctx, r) ==
    LET received == << <<"Received request: ", r.method, " ", r.path>> >>
        Handled(handled) ==
            [reply |-> [code |-> 200, text |-> "",
                        review |-> <<[apiVersion |-> "admission.k8s.io/v1",
                                      kind |-> "AdmissionReview",
                                      response |-> <<handled.response>>]>>],
             reads |-> handled.reads,
             logs |-> received \o handled.logs]
    IN
    IF r.method # MethodPost
    THEN [reply |-> [code |-> 405, text |-> "Method not allowed", review |-> <<>>],
          reads |-> <<>>,
          logs |-> received \o << <<"Invalid method: ", r.method>> >>]
    ELSE IF ~r.body.readable
    THEN [reply |-> [code |-> 400, text |-> "Error reading request body", review |-> <<>>],
          reads |-> <<>>,
          logs |-> received \o << <<"Error reading request body: ", "unexpected EOF">> >>]
    ELSE IF ~r.body.wellFormed
    THEN [reply |-> [code |-> 400, text |-> "Error parsing admission review", review |-> <<>>],
          reads |-> <<>>,
          logs |-> received \o
                   << <<"Error unmarshaling admission review: ", "invalid character">> >>]
    ELSE IF r.body.request = <<>>
    THEN [reply |-> [code |-> 400, text |-> "Invalid admission review", review |-> <<>>],
          reads |-> <<>>,
          logs |-> received \o << <<"Admission review request is nil">> >>]
    ELSE Handled(handleAdmissionRequest(rc, ctx, r.body.request[1]))

\* ServeHTTP carrying out the deletion of a namespace it allows: the claims
\* of the namespace are removed from the cluster.
ServeHTTP_DeletesAllowed(r, ctx) ==
    LET Write(served) ==
            /\ httpRequest' = <<r>>
            /\ reply' = <<served.reply>>
            /\ reads' = served.reads
            /\ logs' = served.logs
            /\ pvcs' = IF /\ served.reply.review # <<>>
                          /\ served.reply.review[1].response[1].allowed
                          /\ r.body.request[1].operation = "DELETE"
                          /\ r.body.request[1].kind = "Namespace"
                       THEN SelectSeq(pvcs, LAMBDA c :
                                c.namespace # r.body.request[1].name)
                       ELSE pvcs
            /\ UNCHANGED <<pvs, snapshots, classes, snapshotChecker, handlers, probed>>
    IN  Write(Served(RiskCalculator, ctx, r))

ServeHTTP(r, ctx) ==
    LET Write(served) ==
            /\ httpRequest' = <<r>>
            /\ reply' = <<served.reply>>
            /\ reads' = served.reads
            /\ logs' = served.logs
            /\ UNCHANGED <<cluster, handlers, probed>>
    IN  Write(Served(RiskCalculator, ctx, r))

----------------------------------------------------------------------------
\* Requests.

Operations == {"CREATE", "UPDATE", "DELETE", "CONNECT"}

\* request.UID and request.UserInfo.Username
Callers == {[uid |-> "uid-1", username |-> "alice"],
            [uid |-> "uid-2", username |-> "bob"]}

\* request.Kind.Kind, request.Namespace and request.Name
NamespaceTarget == [kind |-> "Namespace", namespace |-> "prod", name |-> "prod"]
PVCTarget == [kind |-> "PersistentVolumeClaim", namespace |-> "prod", name |-> "db"]
PVTargets == [kind : {"PersistentVolume"}, namespace : {""},
              name : PVNames \cup {MissingPV}]
PodTarget == [kind |-> "Pod", namespace |-> "prod", name |-> "app-0"]
Targets == {NamespaceTarget, PVCTarget, PodTarget} \cup PVTargets

\* metadata.labels of the object being deleted
LabelValues == {"true", "True", "yes", "1", ""}
LabelMaps == {("pv-safe.io/force-delete" :> v) : v \in LabelValues}
             \cup {("force-delete" :> "true")}

\* request.OldObject.Raw: nil, bytes that do not parse into an object (with
\* nothing like labels in them, or with the bypass label written in them),
\* or an object without or with labels.
OldObjects ==
    {<<>>, <<[wellFormed |-> FALSE, labels |-> <<>>]>>,
     <<[wellFormed |-> FALSE, labels |-> <<("pv-safe.io/force-delete" :> "true")>>]>>,
     <<[wellFormed |-> TRUE, labels |-> <<>>]>>}
    \cup {<<[wellFormed |-> TRUE, labels |-> <<m>>]>> : m \in LabelMaps}

AdmissionRequest(caller, operation, target, oldObject) ==
    [uid |-> caller.uid, username |-> caller.username, operation |-> operation,
     kind |-> target.kind, namespace |-> target.namespace, name |-> target.name,
     oldObject |-> oldObject]

AdmissionRequests ==
    {AdmissionRequest(c, op, t, o) :
        c \in Callers, op \in Operations, t \in Targets, o \in OldObjects}

Review(request) ==
    [method |-> "POST", path |-> "/validate",
     body |-> [readable |-> TRUE, wellFormed |-> TRUE, request |-> <<request>>]]

\* Requests ServeHTTP rejects: a wrong method (without a review, or with
\* the review of a deletion of the claim), a body that cannot be read, a
\* body that does not parse, a review without a request.
MalformedRequests ==
    {[method |-> "GET", path |-> "/validate",
      body |-> [readable |-> TRUE, wellFormed |-> TRUE, request |-> <<>>]],
     [Review(AdmissionRequest([uid |-> "uid-1", username |-> "alice"],
                              "DELETE", PVCTarget, <<>>))
        EXCEPT !.method = "GET"],
     [method |-> "POST", path |-> "/validate",
      body |-> [readable |-> FALSE, wellFormed |-> FALSE, request |-> <<>>]],
     [method |-> "POST", path |-> "/validate",
      body |-> [readable |-> TRUE, wellFormed |-> FALSE, request |-> <<>>]],
     [method |-> "POST", path |-> "/validate",
      body |-> [readable |-> TRUE, wellFormed |-> TRUE, request |-> <<>>]]}

HTTPRequests == MalformedRequests \cup {Review(q) : q \in AdmissionRequests}

\* What may go wrong with the reads of one request: nothing, the API server
\* fails one kind of read, or the 5-second context expires after some reads.
Contexts ==
    {[faults |-> f, expires |-> FALSE, after |-> 0] :
        f \in {{}} \cup {{op} : op \in ReadOps}}
    \cup {[faults |-> {}, expires |-> TRUE, after |-> d] : d \in 0..MaxDeadline}

----------------------------------------------------------------------------
\* The webhook serving admission requests for the objects of one claim:
\* the cluster holds the claim prod/db or not, and snapshots of it.

Checkers == {<<>>, <<"SnapshotChecker">>}

\* The executions of ServeHTTP the HTTP server can run at once.
HandlerIds == {"h1", "h2"}

\* An execution that holds no request.
NoHandler == [request |-> <<>>, reads |-> <<>>, reply |-> <<>>, logs |-> <<>>]

InitServer ==
    /\ pvs = PVsFor(pvcs)
    /\ classes = ClassCatalog
    /\ httpRequest = <<>>
    /\ reply = <<>>
    /\ reads = <<>>
    /\ logs = <<>>
    /\ handlers = [h \in HandlerIds |-> NoHandler]
    /\ probed = <<>>

Init ==
    /\ pvcs \in {l \in PVCLists :
                    \A i \in DOMAIN l : l[i].namespace = PVCTarget.namespace
                                        /\ l[i].name = PVCTarget.name
                                        /\ l[i].labels = <<>>}
    /\ snapshots \in {l \in SnapshotLists :
                        \A i \in DOMAIN l : l[i].namespace = PVCTarget.namespace
                                            /\ l[i].sourcePVC = <<PVCTarget.name>>}
    /\ snapshotChecker \in Checkers
    /\ InitServer

\* ServeHTTP returns: what it held for the request is dropped.
Return ==
    /\ httpRequest # <<>>
    /\ httpRequest' = <<>>
    /\ reply' = <<>>
    /\ reads' = <<>>
    /\ logs' = <<>>
    /\ UNCHANGED <<cluster, handlers, probed>>

\* No request is being served.
Idle == httpRequest = <<>>

Next ==
    \/ Idle /\ \E r \in HTTPRequests, ctx \in Contexts : ServeHTTP(r, ctx)
    \/ Return

Spec == Init /\ [][Next]_vars

----------------------------------------------------------------------------
\* The webhook, its snapshot checker built, serving plain DELETE requests
\* for the namespace prod and the claim prod/db over clusters of several
\* claims and snapshots: claims of both namespaces, pending or bound to a
\* Retain PV, a Delete PV or a PV that is gone, and ready snapshots of both
\* claims in both namespaces, of a Retain or a Delete class.

PlainDeletes ==
    {Review(AdmissionRequest([uid |-> "uid-1", username |-> "alice"], "DELETE", t,
                             <<[wellFormed |-> TRUE, labels |-> <<>>]>>)) :
        t \in {NamespaceTarget, PVCTarget}}

EngineInit ==
    /\ pvcs \in {l \in PVCLists :
                    \A i \in DOMAIN l :
                        l[i].phase \in {"Bound", "Pending"}
                        /\ l[i].volumeName \in {"pv-1", "pv-2", "pv-3", MissingPV, ""}
                        /\ l[i].labels = <<>>}
    /\ snapshots \in {l \in SnapshotLists :
                        \A i \in DOMAIN l : l[i].className # <<>> /\ l[i].ready}
    /\ snapshotChecker = <<"SnapshotChecker">>
    /\ InitServer

EngineNext ==
    \/ Idle /\ \E r \in PlainDeletes, ctx \in Contexts : ServeHTTP(r, ctx)
    \/ Return

EngineSpec == EngineInit /\ [][EngineNext]_vars

----------------------------------------------------------------------------
\* The webhook serving DELETE requests for the namespace prod, the claim
\* prod/db and the volumes pv-1 and pv-2 over clusters whose claims and
\* volumes carry the bypass label or not; the object of the request carries
\* it or not.

LabelledDeletes ==
    {Review(AdmissionRequest([uid |-> "uid-1", username |-> "alice"], "DELETE", t,
                             <<[wellFormed |-> TRUE, labels |-> lb]>>)) :
        t \in {NamespaceTarget, PVCTarget} \cup
              {v \in PVTargets : v.name \in {"pv-1", "pv-2"}},
        lb \in ObjectLabels}

\* The volumes of the cluster, pv-1 and pv-2 labelled lb1 and lb2.
LabelledPVs(list, lb1, lb2) ==
    [n \in PVNames |->
        [PVsFor(list)[n] EXCEPT
            !.labels = IF n = "pv-1" THEN lb1 ELSE IF n = "pv-2" THEN lb2 ELSE <<>>]]

LabelInit ==
    /\ pvcs \in {l \in PVCLists :
                    \A i \in DOMAIN l : /\ l[i].namespace = "prod"
                                        /\ l[i].phase = "Bound"
                                        /\ l[i].volumeName \in {"pv-1", "pv-2"}}
    /\ pvs \in {LabelledPVs(pvcs, lb1, lb2) : lb1 \in ObjectLabels, lb2 \in ObjectLabels}
    /\ snapshots \in {l \in SnapshotLists :
                        \A i \in DOMAIN l : /\ l[i].namespace = "prod"
                                            /\ l[i].ready
                                            /\ l[i].className = <<"csi-retain">>}
    /\ classes = ClassCatalog
    /\ snapshotChecker = <<"SnapshotChecker">>
    /\ httpRequest = <<>>
    /\ reply = <<>>
    /\ reads = <<>>
    /\ logs = <<>>
    /\ handlers = [h \in HandlerIds |-> NoHandler]
    /\ probed = <<>>

LabelNext ==
    \/ Idle /\ \E r \in LabelledDeletes, ctx \in Contexts : ServeHTTP(r, ctx)
    \/ Return

LabelSpec == LabelInit /\ [][LabelNext]_vars

----------------------------------------------------------------------------
\* The webhook serving requests in parallel: net/http runs ServeHTTP for
\* each request on a goroutine of its own.  An execution makes its reads
\* one at a time, and the reads of the executions interleave; each read
\* returns or fails on its own.  The executions share the Handler, whose
\* fields are set by NewHandler and never assigned after, and the cluster.

\* The requests served in parallel: DELETE requests, one of them with the
\* bypass label, a request that is no deletion, and the requests ServeHTTP
\* rejects.
ParallelRequests ==
    PlainDeletes \cup MalformedRequests \cup
    {Review(AdmissionRequest([uid |-> "uid-2", username |-> "bob"], "UPDATE",
                             PVCTarget, <<>>)),
     Review(AdmissionRequest([uid |-> "uid-2", username |-> "bob"], "DELETE",
                             PVCTarget,
                             <<[wellFormed |-> TRUE,
                                labels |-> <<("pv-safe.io/force-delete" :> "true")>>]>>))}

\* net/http starts an execution of ServeHTTP for request r.
Accept(h, r) ==
    /\ handlers[h].request = <<>>
    /\ handlers' = [handlers EXCEPT ![h] = [NoHandler EXCEPT !.request = <<r>>]]
    /\ UNCHANGED <<cluster, httpRequest, reads, logs, reply, probed>>

\* The read that ServeHTTP makes after the reads execution h has made, with
\* the outcome it has under context ctx: none when h has made them all.
NextReads(h, ctx) ==
    LET made == handlers[h].reads
        After(served) ==
            IF /\ Len(served.reads) > Len(made)
               /\ SubSeq(served.reads, 1, Len(made)) = made
            THEN {SubSeq(served.reads, 1, Len(made) + 1)}
            ELSE {}
    IN  After(Served(RiskCalculator, ctx, handlers[h].request[1]))

\* Execution h makes its next read.
NextRead(h, ctx) ==
    /\ handlers[h].request # <<>>
    /\ handlers[h].reply = <<>>
    /\ \E next \in NextReads(h, ctx) :
          handlers' = [handlers EXCEPT ![h].reads = next]
    /\ UNCHANGED <<cluster, httpRequest, reads, logs, reply, probed>>

\* Replies of a handler that answers nothing when it denies.
Replies_DropsDenials(h, ctx) ==
    LET After(served) ==
            IF /\ served.reads = handlers[h].reads
               /\ served.reply.review # <<>>
                  => served.reply.review[1].response[1].allowed
            THEN {served}
            ELSE {}
    IN  After(Served(RiskCalculator, ctx, handlers[h].request[1]))

\* What execution h writes once it has made all the reads ServeHTTP makes
\* for its request under context ctx: the reply and the log lines.
Replies(h, ctx) ==
    LET After(served) ==
            IF served.reads = handlers[h].reads THEN {served} ELSE {}
    IN  After(Served(RiskCalculator, ctx, handlers[h].request[1]))

\* Execution h, having made all the reads ServeHTTP makes for its request,
\* writes the reply.
WriteReply(h, ctx) ==
    /\ handlers[h].request # <<>>
    /\ handlers[h].reply = <<>>
    /\ \E served \in Replies(h, ctx) :
          handlers' = [handlers EXCEPT ![h].reply = <<served.reply>>,
                                       ![h].logs = served.logs]
    /\ UNCHANGED <<cluster, httpRequest, reads, logs, reply, probed>>

\* ServeHTTP of execution h returns.
Finish(h) ==
    /\ handlers[h].reply # <<>>
    /\ handlers' = [handlers EXCEPT ![h] = NoHandler]
    /\ UNCHANGED <<cluster, httpRequest, reads, logs, reply, probed>>

ParallelInit ==
    /\ pvcs \in {l \in PVCLists :
                    \A i \in DOMAIN l : /\ l[i].namespace = PVCTarget.namespace
                                        /\ l[i].name = PVCTarget.name
                                        /\ l[i].phase = "Bound"
                                        /\ l[i].volumeName \in {"pv-1", "pv-2"}
                                        /\ l[i].labels = <<>>}
    /\ snapshots \in {l \in SnapshotLists :
                        \A i \in DOMAIN l : /\ l[i].namespace = PVCTarget.namespace
                                            /\ l[i].sourcePVC = <<PVCTarget.name>>
                                            /\ l[i].ready
                                            /\ l[i].className # <<>>}
    /\ snapshotChecker = <<"SnapshotChecker">>
    /\ InitServer

ParallelNext ==
    \/ \E h \in HandlerIds, r \in ParallelRequests : Accept(h, r)
    \/ \E h \in HandlerIds, ctx \in Contexts : NextRead(h, ctx)
    \/ \E h \in HandlerIds, ctx \in Contexts : WriteReply(h, ctx)
    \/ \E h \in HandlerIds : Finish(h)

ParallelSpec == ParallelInit /\ [][ParallelNext]_vars

\* The same, each execution being scheduled and each of its reads returning
\* or failing: an execution that can make its next read or write its reply
\* does so.
\* Execution h has accepted a request and not yet written its reply.
InFlight(h) == handlers[h].request # <<>> /\ handlers[h].reply = <<>>

\* Execution h can take a step: its next read returns or fails, or it writes
\* its reply.
Runnable(h) ==
    /\ InFlight(h)
    /\ \E ctx \in Contexts : NextReads(h, ctx) # {} \/ Replies(h, ctx) # {}

\* A step of execution h between accepting its request and writing its reply.
Proceeds(h) == InFlight(h) /\ handlers'[h] # handlers[h]

\* Weak fairness of the steps of every execution, WF_vars(Proceeds(h)),
\* written out with Runnable(h) for ENABLED <<Proceeds(h)>>_vars: the Go
\* scheduler runs every runnable goroutine, and each cluster read returns or
\* fails.
ParallelLiveSpec ==
    /\ ParallelInit
    /\ [][ParallelNext]_vars
    /\ \A h \in HandlerIds : ([]<>(~Runnable(h))) \/ ([]<><<Proceeds(h)>>_vars)

----------------------------------------------------------------------------
\* HasReadySnapshot called on its own over clusters of snapshots of every
\* sort: of the claim asked about or of another, of its namespace or of
\* another, ready or not, naming no class, the empty class name, a class
\* that keeps or deletes, a class without a deletionPolicy or a class that
\* does not exist.

\* A class name no VolumeSnapshotClass has.
MissingClass == "csi-gone"

ProbedBodies ==
    {[namespace |-> "prod", sourcePVC |-> <<"db">>, ready |-> TRUE, className |-> c] :
        c \in {<<>>, <<"">>, <<"csi-retain">>, <<"csi-delete">>, <<"csi-bare">>,
               <<MissingClass>>}}
    \cup {[namespace |-> "prod", sourcePVC |-> <<"db">>, ready |-> FALSE,
           className |-> <<"csi-retain">>],
          [namespace |-> "dev", sourcePVC |-> <<"db">>, ready |-> TRUE,
           className |-> <<"csi-retain">>],
          [namespace |-> "prod", sourcePVC |-> <<"web">>, ready |-> TRUE,
           className |-> <<"csi-retain">>],
          [namespace |-> "prod", sourcePVC |-> <<>>, ready |-> TRUE,
           className |-> <<"csi-retain">>]}

\* Every listing of at most MaxProbed such snapshots.
ProbedLists ==
    {[i \in DOMAIN l |-> Named(l[i], i)] :
        l \in UNION {[1..n -> ProbedBodies] : n \in 0..MaxProbed}}

\* The arguments of the calls: namespace and pvcName.
ProbeCalls == {<<"prod", "db">>, <<"dev", "db">>}

\* A caller calls sc.HasReadySnapshot(ctx, namespace, pvcName) and gets
\* (found, info, err) back.
CallHasReadySnapshot(namespace, pvcName, ctx) ==
    LET Returned(result) ==
            probed' = <<[namespace |-> namespace, pvcName |-> pvcName,
                         found |-> result.found, info |-> result.info,
                         err |-> result.err, reads |-> result.reads]>>
    IN  /\ probed = <<>>
        /\ Returned(HasReadySnapshot(RiskCalculator, ctx, <<>>, namespace, pvcName))
        /\ UNCHANGED <<cluster, httpRequest, reads, logs, reply, handlers>>

\* The caller drops what it got.
DropProbe ==
    /\ probed # <<>>
    /\ probed' = <<>>
    /\ UNCHANGED <<cluster, httpRequest, reads, logs, reply, handlers>>

ProbeInit ==
    /\ pvcs = <<>>
    /\ snapshots \in ProbedLists
    /\ snapshotChecker = <<"SnapshotChecker">>
    /\ InitServer

ProbeNext ==
    \/ \E call \in ProbeCalls, ctx \in Contexts :
          CallHasReadySnapshot(call[1], call[2], ctx)
    \/ DropProbe

ProbeSpec == ProbeInit /\ [][ProbeNext]_vars

----------------------------------------------------------------------------
\* The webhook serving deletions of the claim prod/db and of its namespace,
\* with the bypass label or without, over clusters in which the claim is
\* Pending or Bound to a Retain or a Delete PV and has snapshots of every
\* sort.

TracedDeletes ==
    {Review(AdmissionRequest([uid |-> "uid-1", username |-> "alice"], "DELETE", t, o)) :
        t \in {NamespaceTarget, PVCTarget},
        o \in {<<>>, <<[wellFormed |-> TRUE,
                        labels |-> <<("pv-safe.io/force-delete" :> "true")>>]>>}}

TracedInit ==
    /\ pvcs \in {l \in PVCLists :
                    \A i \in DOMAIN l : /\ l[i].namespace = PVCTarget.namespace
                                        /\ l[i].name = PVCTarget.name
                                        /\ l[i].phase \in {"Bound", "Pending"}
                                        /\ l[i].volumeName \in {"pv-1", "pv-2", ""}
                                        /\ l[i].labels = <<>>}
    /\ snapshots \in ProbedLists
    /\ snapshotChecker = <<"SnapshotChecker">>
    /\ InitServer

TracedNext ==
    \/ Idle /\ \E r \in TracedDeletes, ctx \in Contexts : ServeHTTP(r, ctx)
    \/ Return

TracedSpec == TracedInit /\ [][TracedNext]_vars

----------------------------------------------------------------------------
\* The webhook, its snapshot checker built, serving plain DELETE requests
\* for the namespace prod, the claim prod/db and every PV, over clusters of
\* several Bound claims of both namespaces, some of them protected by a
\* ready snapshot of a Retain class.

DeniableDeletes ==
    {Review(AdmissionRequest([uid |-> "uid-1", username |-> "alice"], "DELETE", t,
                             <<[wellFormed |-> TRUE, labels |-> <<>>]>>)) :
        t \in {NamespaceTarget, PVCTarget} \cup PVTargets}

DeniableInit ==
    /\ pvcs \in {l \in PVCLists :
                    \A i \in DOMAIN l : /\ l[i].phase = "Bound"
                                        /\ l[i].volumeName \in PVNames
                                        /\ l[i].labels = <<>>}
    /\ snapshots \in {l \in SnapshotLists :
                        \A i \in DOMAIN l : /\ l[i].ready
                                            /\ l[i].className = <<"csi-retain">>}
    /\ snapshotChecker = <<"SnapshotChecker">>
    /\ InitServer

DeniableNext ==
    \/ Idle /\ \E r \in DeniableDeletes, ctx \in Contexts : ServeHTTP(r, ctx)
    \/ Return

DeniableSpec == DeniableInit /\ [][DeniableNext]_vars

----------------------------------------------------------------------------
\* Vocabulary of the properties: the request being served, the verdict
\* written for it, the reads made for it, and facts of the cluster.

\* ServeHTTP has written an admission response for an admission request.
Answered == httpRequest # <<>> /\ reply[1].review # <<>>
Request == httpRequest[1].body.request[1]
Response == reply[1].review[1].response[1]
Allowed == Response.allowed
Denied == ~Response.allowed

Deleting(kind) ==
    Answered /\ Request.operation = "DELETE" /\ Request.kind = kind

\* The object being deleted carries pv-safe.io/force-delete=true.
CarriesBypassLabel ==
    /\ Request.oldObject # <<>>
    /\ Request.oldObject[1].wellFormed
    /\ Request.oldObject[1].labels # <<>>
    /\ \E k \in DOMAIN Request.oldObject[1].labels[1] :
          k = "pv-safe.io/force-delete"
          /\ Request.oldObject[1].labels[1][k] = "true"

ReadSucceeded(op, key) ==
    \E i \in DOMAIN reads :
        reads[i].op = op /\ reads[i].key = key /\ reads[i].err = <<>>
ReadFailed(op, key) ==
    \E i \in DOMAIN reads :
        reads[i].op = op /\ reads[i].key = key /\ reads[i].err # <<>>
ReadMade(op) == \E i \in DOMAIN reads : reads[i].op = op

\* The claim namespace/name of the cluster, as a sequence of 0 or 1 claims.
ClaimAt(namespace, name) ==
    SelectSeq(pvcs, LAMBDA c : c.namespace = namespace /\ c.name = name)

\* Snapshot i of the cluster is a snapshot of the claim namespace/name.
SnapshotOf(i, namespace, name) ==
    /\ snapshots[i].namespace = namespace
    /\ snapshots[i].sourcePVC = <<name>>

\* The deletion policy of the class snapshot i names is p.
ClassPolicyIs(i, p) ==
    /\ snapshots[i].className # <<>>
    /\ snapshots[i].className[1] \in DOMAIN classes
    /\ classes[snapshots[i].className[1]].hasPolicy
    /\ classes[snapshots[i].className[1]].deletionPolicy = p

\* Snapshot i protects the claim: it is a ready snapshot of it whose class
\* keeps the data.
ProtectedBy(i, namespace, name) ==
    /\ SnapshotOf(i, namespace, name)
    /\ snapshots[i].ready
    /\ ClassPolicyIs(i, "Retain")

\* The claim being deleted was read with phase Bound and the PV it is
\* bound to was read: the PV, as a sequence of 0 or 1 PVs.
BoundPVRead ==
    LET claim == ClaimAt(Request.namespace, Request.name)
    IN  IF /\ ReadSucceeded("GetPVC", <<Request.namespace, Request.name>>)
           /\ claim # <<>>
           /\ claim[1].phase = "Bound"
           /\ ReadSucceeded("GetPV", <<claim[1].volumeName>>)
        THEN <<pvs[claim[1].volumeName]>>
        ELSE <<>>

----------------------------------------------------------------------------
\* C1: a DELETE of a PVC without the bypass label, whose claim is read with
\* phase Bound and whose PV is read with a reclaim policy other than Retain
\* (Delete, unknown or unset), is denied when the cluster holds no ready
\* snapshot of the claim, in its namespace, of a Retain class.
C1_UnprotectedPVCDenied ==
    (/\ Deleting("PersistentVolumeClaim")
     /\ ~CarriesBypassLabel
     /\ BoundPVRead # <<>>
     /\ BoundPVRead[1].reclaimPolicy # "Retain"
     /\ ~\E i \in DOMAIN snapshots : ProtectedBy(i, Request.namespace, Request.name))
    => Denied

\* C1 at work: a claim on a PV of unknown policy, with a ready snapshot of a
\* Delete class, is denied.
C1_Witness ==
    /\ Deleting("PersistentVolumeClaim")
    /\ ~CarriesBypassLabel
    /\ BoundPVRead # <<>>
    /\ BoundPVRead[1].reclaimPolicy = "Recycle"
    /\ \E i \in DOMAIN snapshots :
          /\ SnapshotOf(i, Request.namespace, Request.name)
          /\ snapshots[i].ready
          /\ ClassPolicyIs(i, "Delete")
    /\ Denied

\* The snapshot reads of a request.
SnapshotReadMade == ReadMade("ListSnapshots") \/ ReadMade("GetSnapshotClass")

\* Snapshot i is a ready snapshot of the claim namespace/name.
ReadySnapshotOf(i, namespace, name) ==
    SnapshotOf(i, namespace, name) /\ snapshots[i].ready

\* C2: for a Bound PVC on a PV whose policy is not Retain: when the
\* snapshot list is read and holds a ready snapshot of the claim whose class
\* is read and has policy Retain, the deletion is allowed; when the ready
\* snapshots of the claim all have a class of policy Delete, it is denied.
C2_SnapshotPolicyDecides ==
    (/\ Deleting("PersistentVolumeClaim")
     /\ ~CarriesBypassLabel
     /\ BoundPVRead # <<>>
     /\ BoundPVRead[1].reclaimPolicy # "Retain")
    => /\ (/\ ReadSucceeded("ListSnapshots", <<Request.namespace>>)
           /\ \E i \in DOMAIN snapshots :
                 /\ ProtectedBy(i, Request.namespace, Request.name)
                 /\ ReadSucceeded("GetSnapshotClass", snapshots[i].className))
          => Allowed
       /\ (/\ \E i \in DOMAIN snapshots :
                 ReadySnapshotOf(i, Request.namespace, Request.name)
           /\ \A i \in DOMAIN snapshots :
                 ReadySnapshotOf(i, Request.namespace, Request.name)
                 => ClassPolicyIs(i, "Delete"))
          => Denied

\* C2 at work: a claim on a Delete PV is allowed on a ready snapshot of a
\* Retain class, both read.
C2_Witness ==
    /\ Deleting("PersistentVolumeClaim")
    /\ BoundPVRead # <<>>
    /\ BoundPVRead[1].reclaimPolicy = "Delete"
    /\ ReadSucceeded("ListSnapshots", <<Request.namespace>>)
    /\ \E i \in DOMAIN snapshots :
          /\ ProtectedBy(i, Request.namespace, Request.name)
          /\ ReadSucceeded("GetSnapshotClass", snapshots[i].className)
    /\ Allowed

\* C3: a DELETE of a PVC whose claim is read Bound and whose PV is read
\* with policy Retain is allowed, whatever snapshots the cluster holds and
\* whatever reads fail.
C3_RetainPVCAllowed ==
    (/\ Deleting("PersistentVolumeClaim")
     /\ BoundPVRead # <<>>
     /\ BoundPVRead[1].reclaimPolicy = "Retain")
    => Allowed

\* C3 at work: a claim on a Retain PV, of which the cluster holds no
\* protecting snapshot, is allowed by assessment.
C3_Witness ==
    /\ Deleting("PersistentVolumeClaim")
    /\ ~CarriesBypassLabel
    /\ snapshotChecker # <<>>
    /\ BoundPVRead # <<>>
    /\ BoundPVRead[1].reclaimPolicy = "Retain"
    /\ ~\E i \in DOMAIN snapshots : ProtectedBy(i, Request.namespace, Request.name)
    /\ Allowed

\* C4: a DELETE of a PVC whose claim is read with a phase other than Bound
\* is allowed, and no PV and no snapshot is read for it.
C4_UnboundPVCAllowed ==
    (/\ Deleting("PersistentVolumeClaim")
     /\ ReadSucceeded("GetPVC", <<Request.namespace, Request.name>>)
     /\ ClaimAt(Request.namespace, Request.name)[1].phase # "Bound")
    => /\ Allowed
       /\ ~ReadMade("GetPV")
       /\ ~SnapshotReadMade

\* C4 at work: a Lost claim, which still names a volume, is allowed on the
\* read of the claim alone.
C4_Witness ==
    /\ Deleting("PersistentVolumeClaim")
    /\ ~CarriesBypassLabel
    /\ ReadSucceeded("GetPVC", <<Request.namespace, Request.name>>)
    /\ ClaimAt(Request.namespace, Request.name)[1].phase = "Lost"
    /\ ClaimAt(Request.namespace, Request.name)[1].volumeName # ""
    /\ Len(reads) = 1
    /\ Allowed

\* C5: a DELETE of a PV without the bypass label, whose PV is read, is
\* allowed exactly when the reclaim policy is Retain (Delete, an unknown
\* policy and an unset one are denied), and no snapshot is read for it.
C5_PVByPolicyAlone ==
    (/\ Deleting("PersistentVolume")
     /\ ~CarriesBypassLabel
     /\ ReadSucceeded("GetPV", <<Request.name>>))
    => /\ Allowed <=> pvs[Request.name].reclaimPolicy = "Retain"
       /\ ~SnapshotReadMade

\* C5 at work: a PV of unknown policy is denied although its claim has a
\* ready snapshot of a Retain class.
C5_Witness ==
    /\ Deleting("PersistentVolume")
    /\ ~CarriesBypassLabel
    /\ ReadSucceeded("GetPV", <<Request.name>>)
    /\ pvs[Request.name].reclaimPolicy = "Recycle"
    /\ pvs[Request.name].claimRef # <<>>
    /\ \E i \in DOMAIN snapshots :
          ProtectedBy(i, pvs[Request.name].claimRef[1].namespace,
                      pvs[Request.name].claimRef[1].name)
    /\ Denied

\* Some snapshot read of the request failed.
SnapshotReadFailed ==
    \E i \in DOMAIN reads :
        reads[i].op \in {"ListSnapshots", "GetSnapshotClass"} /\ reads[i].err # <<>>

\* The claims the PVC list read of a namespace deletion returns.
ListedClaims == {i \in DOMAIN pvcs : pvcs[i].namespace = Request.name}

\* Claim i is Bound and its PV was read with a policy other than Retain.
OnReadUnretainedPV(i) ==
    /\ pvcs[i].phase = "Bound"
    /\ ReadSucceeded("GetPV", <<pvcs[i].volumeName>>)
    /\ pvs[pvcs[i].volumeName].reclaimPolicy # "Retain"

\* Claim i is Bound to a PV of a policy other than Retain, and no read of
\* that PV failed.
OnUnretainedPV(i) ==
    /\ pvcs[i].phase = "Bound"
    /\ pvcs[i].volumeName \in DOMAIN pvs
    /\ pvs[pvcs[i].volumeName].reclaimPolicy # "Retain"
    /\ ~ReadFailed("GetPV", <<pvcs[i].volumeName>>)

\* The cluster holds a snapshot that protects claim i.
Protected(i) ==
    \E j \in DOMAIN snapshots : ProtectedBy(j, pvcs[i].namespace, pvcs[i].name)

\* C6: a DELETE of a namespace without the bypass label, whose PVC list is
\* read, is denied exactly when a Bound claim of the list is risky by the
\* rule for one PVC: its PV is read with a policy other than Retain and no
\* protecting snapshot is found (none in the cluster, or the snapshot reads
\* fail or are not made).  With no claim or no Bound claim it is allowed.
C6_NamespaceDeniedIffRiskyPVC ==
    (/\ Deleting("Namespace")
     /\ ~CarriesBypassLabel
     /\ ReadSucceeded("ListPVCs", <<Request.name>>))
    => /\ (\E i \in ListedClaims : OnUnretainedPV(i) /\ ~Protected(i))
          => Denied
       /\ Denied
          => \E i \in ListedClaims :
                /\ OnReadUnretainedPV(i)
                /\ ~Protected(i) \/ SnapshotReadFailed \/ snapshotChecker = <<>>
       /\ (\A i \in ListedClaims : pvcs[i].phase # "Bound") => Allowed

\* C6 at work: a namespace of two Bound claims, one on a Retain PV and one
\* unprotected on a Delete PV, is denied with every read succeeding.
C6_Witness ==
    /\ Deleting("Namespace")
    /\ ReadSucceeded("ListPVCs", <<Request.name>>)
    /\ \A i \in DOMAIN reads : reads[i].err = <<>>
    /\ \E i, j \in ListedClaims :
          /\ pvcs[i].phase = "Bound"
          /\ ReadSucceeded("GetPV", <<pvcs[i].volumeName>>)
          /\ pvs[pvcs[i].volumeName].reclaimPolicy = "Retain"
          /\ OnReadUnretainedPV(j) /\ ~Protected(j)
    /\ Denied

\* The fragments of the message of the response.
MessageOf(response) ==
    IF response.result = <<>> THEN {}
    ELSE {response.result[1].message[k] : k \in DOMAIN response.result[1].message}

\* C7: in the assessment of a namespace deletion, a Bound claim whose PV
\* cannot be read is counted risky: the deletion is denied and the denial
\* names the claim.
C7_UnreadablePVDenied ==
    (/\ Deleting("Namespace")
     /\ ~CarriesBypassLabel
     /\ ReadSucceeded("ListPVCs", <<Request.name>>))
    => \A i \in ListedClaims :
          (pvcs[i].phase = "Bound" /\ ReadFailed("GetPV", <<pvcs[i].volumeName>>))
          => Denied /\ pvcs[i].name \in MessageOf(Response)

\* C8: a request whose operation is not DELETE is allowed, whatever it is
\* about, and no cluster read is made for it.
C8_OnlyDeletesAssessed ==
    (Answered /\ Request.operation # "DELETE")
    => Allowed /\ reads = <<>>

\* C8 at work: an UPDATE of a Bound claim on a PV of policy Delete, which
\* no snapshot protects, is allowed.
C8_Witness ==
    /\ Answered
    /\ Request.operation = "UPDATE"
    /\ Request.kind = "PersistentVolumeClaim"
    /\ ClaimAt(Request.namespace, Request.name) # <<>>
    /\ ClaimAt(Request.namespace, Request.name)[1].phase = "Bound"
    /\ ClaimAt(Request.namespace, Request.name)[1].volumeName = "pv-2"
    /\ snapshots = <<>>
    /\ Allowed
    /\ reads = <<>>

\* C9: a DELETE of an object that carries pv-safe.io/force-delete=true is
\* allowed, whatever its kind and the state of the cluster, and no cluster
\* read is made for it.
C9_BypassAllowsBeforeReads ==
    (Answered /\ Request.operation = "DELETE" /\ CarriesBypassLabel)
    => Allowed /\ reads = <<>>

\* C9 at work: a labelled Bound claim on a PV of policy Delete, which no
\* snapshot protects, is allowed to go.
C9_Witness ==
    /\ Deleting("PersistentVolumeClaim")
    /\ CarriesBypassLabel
    /\ ClaimAt(Request.namespace, Request.name) # <<>>
    /\ ClaimAt(Request.namespace, Request.name)[1].phase = "Bound"
    /\ ClaimAt(Request.namespace, Request.name)[1].volumeName = "pv-2"
    /\ snapshots = <<>>
    /\ Allowed
    /\ reads = <<>>

\* The response is the allow given on the bypass label.
BypassAllowed ==
    /\ Allowed
    /\ "Deletion allowed via bypass label " \in MessageOf(Response)

\* The request being served, sent without the object being deleted.
Unlabelled ==
    [httpRequest[1] EXCEPT !.body.request = <<[Request EXCEPT !.oldObject = <<>>]>>]

\* C10: only the key pv-safe.io/force-delete with the value "true"
\* bypasses.  A DELETE whose object has another value for it ("True",
\* "yes", "1", ""), lacks the label, has no labels or is absent is not
\* bypassed: it is decided by the assessment, as the same request without
\* the object is, and a Namespace, PVC or PV is read for it.
C10_OnlyExactLabelBypasses ==
    (Answered /\ Request.operation = "DELETE" /\ ~CarriesBypassLabel)
    => /\ ~BypassAllowed
       /\ Request.kind \in {"Namespace", "PersistentVolumeClaim", "PersistentVolume"}
          => reads # <<>>
       /\ \E ctx \in Contexts :
             LET Same(plain) == plain.reply = reply[1] /\ plain.reads = reads
             IN  Same(Served(RiskCalculator, ctx, Unlabelled))

\* C10 at work: a Bound claim on a PV of policy Delete, which no snapshot
\* protects, is denied although it is labelled pv-safe.io/force-delete=True.
C10_Witness ==
    /\ Deleting("PersistentVolumeClaim")
    /\ Request.oldObject # <<>>
    /\ Request.oldObject[1].labels = <<("pv-safe.io/force-delete" :> "True")>>
    /\ BoundPVRead # <<>>
    /\ BoundPVRead[1].reclaimPolicy = "Delete"
    /\ snapshots = <<>>
    /\ Denied

\* The RiskCalculator over the cluster with every label of every claim and
\* volume removed.
UnlabelledCalculator ==
    [client |-> [pvcs |-> [i \in DOMAIN pvcs |-> [pvcs[i] EXCEPT !.labels = <<>>]],
                 pvs |-> [n \in DOMAIN pvs |-> [pvs[n] EXCEPT !.labels = <<>>]],
                 snapshots |-> snapshots, classes |-> classes],
     snapshotChecker |-> snapshotChecker]

\* C11: the bypass label counts only on the object of the request.  The
\* reply and the reads of a request are those it gets from the cluster with
\* every label of every claim and volume removed; in particular an
\* unlabelled claim on a labelled PV, an unlabelled PV of a labelled claim
\* and a namespace of labelled claims are denied when they are risky.
C11_BypassOnlyOnRequestObject ==
    Answered =>
    /\ \E ctx \in Contexts :
          LET Same(bare) == bare.reply = reply[1] /\ bare.reads = reads
          IN  Same(Served(UnlabelledCalculator, ctx, httpRequest[1]))
    /\ (/\ Deleting("PersistentVolumeClaim")
        /\ ~CarriesBypassLabel
        /\ BoundPVRead # <<>>
        /\ BoundPVRead[1].reclaimPolicy # "Retain"
        /\ ~\E i \in DOMAIN snapshots : ProtectedBy(i, Request.namespace, Request.name))
       => Denied
    /\ (/\ Deleting("PersistentVolume")
        /\ ~CarriesBypassLabel
        /\ ReadSucceeded("GetPV", <<Request.name>>)
        /\ pvs[Request.name].reclaimPolicy # "Retain")
       => Denied
    /\ (/\ Deleting("Namespace")
        /\ ~CarriesBypassLabel
        /\ ReadSucceeded("ListPVCs", <<Request.name>>)
        /\ \E i \in ListedClaims : OnUnretainedPV(i) /\ ~Protected(i))
       => Denied

\* C11 at work: the unlabelled claim prod/db is denied although both it, in
\* the cluster, and its PV carry the bypass label.
C11_Witness ==
    /\ Deleting("PersistentVolumeClaim")
    /\ ~CarriesBypassLabel
    /\ BoundPVRead # <<>>
    /\ BoundPVRead[1].reclaimPolicy = "Delete"
    /\ BoundPVRead[1].labels = <<("pv-safe.io/force-delete" :> "true")>>
    /\ ClaimAt(Request.namespace, Request.name)[1].labels # <<>>
    /\ Denied

\* The last read of the request.
LastRead == reads[Len(reads)]

\* The reads whose failure makes the engine return an error, by the kind
\* being deleted.
FatalReads ==
    IF Request.kind = "Namespace" THEN {"ListPVCs"}
    ELSE IF Request.kind = "PersistentVolumeClaim" THEN {"GetPVC", "GetPV"}
    ELSE IF Request.kind = "PersistentVolume" THEN {"GetPV"}
    ELSE {}

\* The engine returned an error for the DELETE being served: the read it
\* stopped at failed.
EngineFailed ==
    /\ Answered
    /\ Request.operation = "DELETE"
    /\ reads # <<>>
    /\ LastRead.op \in FatalReads
    /\ LastRead.err # <<>>

\* The response is the allow given on an engine error, carrying the error
\* of the last read.
ErrorAllowed ==
    /\ Allowed
    /\ "Risk assessment error (allowed): " \in MessageOf(Response)
    /\ \A k \in DOMAIN LastRead.err : LastRead.err[k] \in MessageOf(Response)

ContextExpired ==
    \E i \in DOMAIN reads : reads[i].err = <<"context deadline exceeded">>

\* C13: a DELETE whose context expires during the evaluation is answered
\* by the allow given on an engine error, carrying the cancellation as its
\* cause: it is not denied, and it is not allowed as "safe" on the claims
\* assessed before the expiry.
C13_ExpiredContextAllowsAsError ==
    (Answered /\ Request.operation = "DELETE" /\ ContextExpired)
    => /\ Allowed
       /\ "Risk assessment error (allowed): " \in MessageOf(Response)
       /\ "context deadline exceeded" \in MessageOf(Response)

----------------------------------------------------------------------------
\* The snapshot probe of the claim namespace/name could not answer: there
\* is no snapshot checker, or the snapshot list read made right after the
\* read of the PV pvName failed.
ProbeUnanswered(namespace, pvName) ==
    \/ snapshotChecker = <<>>
    \/ \E k \in DOMAIN reads :
          /\ k > 1
          /\ reads[k - 1].op = "GetPV"
          /\ reads[k - 1].key = <<pvName>>
          /\ reads[k - 1].err = <<>>
          /\ reads[k].op = "ListSnapshots"
          /\ reads[k].key = <<namespace>>
          /\ reads[k].err # <<>>

\* The response is a denial for want of a snapshot, not an engine error.
DeniedForNoSnapshot ==
    /\ Denied
    /\ " reclaim policy, no snapshot found" \in MessageOf(Response)
    /\ "Risk assessment error (allowed): " \notin MessageOf(Response)

\* C14: a snapshot probe that cannot answer (no snapshot checker, or the
\* snapshot list read fails, as it does when the snapshot API is absent)
\* counts as "no snapshot": the Bound claim on a PV of a policy other than
\* Retain is risky and its deletion, or that of its namespace, is denied for
\* want of a snapshot, whatever snapshots the cluster holds; it is not
\* answered as an engine error.
C14_FailedProbeMeansNoSnapshot ==
    /\ (/\ Deleting("PersistentVolumeClaim")
        /\ ~CarriesBypassLabel
        /\ BoundPVRead # <<>>
        /\ BoundPVRead[1].reclaimPolicy # "Retain"
        /\ ProbeUnanswered(Request.namespace, BoundPVRead[1].name))
       => DeniedForNoSnapshot
    /\ (/\ Deleting("Namespace")
        /\ ~CarriesBypassLabel
        /\ ReadSucceeded("ListPVCs", <<Request.name>>)
        /\ \E i \in ListedClaims :
              /\ OnReadUnretainedPV(i)
              /\ ProbeUnanswered(Request.name, pvcs[i].volumeName))
       => DeniedForNoSnapshot

\* C14 at work: the cluster holds a snapshot that protects the claim being
\* deleted, the snapshot list read fails, and the deletion is denied.
C14_Witness ==
    /\ Deleting("PersistentVolumeClaim")
    /\ ~CarriesBypassLabel
    /\ BoundPVRead # <<>>
    /\ BoundPVRead[1].reclaimPolicy = "Delete"
    /\ snapshotChecker # <<>>
    /\ ReadFailed("ListSnapshots", <<Request.namespace>>)
    /\ \E i \in DOMAIN snapshots : ProtectedBy(i, Request.namespace, Request.name)
    /\ DeniedForNoSnapshot

----------------------------------------------------------------------------
\* What the engine returns for the DELETE being served, under context ctx.
EngineAssessment(ctx) ==
    IF Request.kind = "Namespace"
    THEN AssessNamespaceDeletion(RiskCalculator, ctx, Request.name)
    ELSE IF Request.kind = "PersistentVolumeClaim"
    THEN AssessPVCDeletion(RiskCalculator, ctx, Request.namespace, Request.name)
    ELSE AssessPVDeletion(RiskCalculator, ctx, Request.name)

\* The engine, making the reads of the request being served, returns a
\* risky assessment and no error, and the message of the response is its
\* block message followed by its suggestion.
CarriesEngineBlock ==
    \E ctx \in Contexts :
        LET Is(assessed) ==
                /\ assessed.reads = reads
                /\ assessed.err = <<>>
                /\ assessed.assessment # <<>>
                /\ assessed.assessment[1].isRisky
                /\ assessed.assessment[1].message # <<>>
                /\ assessed.assessment[1].suggestion # <<>>
                /\ Response.result[1].message =
                       assessed.assessment[1].message
                       \o assessed.assessment[1].suggestion
        IN  Is(EngineAssessment(ctx))

\* C15: every denial has allowed=false and a result of status "Failure",
\* reason "Forbidden" and code 403, whose message is the block message of
\* the engine followed by its suggestion, and is written with the HTTP
\* status 200; every allow has allowed=true and a result, if any, whose
\* code is not 403.
C15_DenialShape ==
    Answered =>
    /\ Denied
       => /\ reply[1].code = 200
          /\ Response.result # <<>>
          /\ Response.result[1].status = "Failure"
          /\ Response.result[1].reason = "Forbidden"
          /\ Response.result[1].code = 403
          /\ Request.kind \in {"Namespace", "PersistentVolumeClaim", "PersistentVolume"}
          /\ CarriesEngineBlock
    /\ Allowed
       => /\ reply[1].code = 200
          /\ Response.result # <<>> => Response.result[1].code # 403

\* C15 at work: a denial of the deletion of a PV, whose message opens with
\* the block message and ends with the suggestion.
C15_Witness ==
    /\ Deleting("PersistentVolume")
    /\ Denied
    /\ reply[1].code = 200
    /\ Response.result[1].code = 403
    /\ Head(Response.result[1].message) = "DELETION BLOCKED: PV '"
    /\ CarriesEngineBlock

----------------------------------------------------------------------------
\* C16: the admission response carries the uid of the request it answers,
\* on every path: requests that are not DELETEs, bypassed deletions, unknown
\* kinds, engine errors, denials and safe allows.
C16_ResponseEchoesUID ==
    Answered => Response.uid = Request.uid

\* C16 at work: a denied deletion sent under the uid "uid-2" is answered
\* under "uid-2".
C16_Witness ==
    /\ Deleting("PersistentVolumeClaim")
    /\ Request.uid = "uid-2"
    /\ Denied
    /\ Response.uid = "uid-2"

----------------------------------------------------------------------------
\* The request was refused with the HTTP status code: nothing but an error
\* text was written and the cluster was not read.
Refused(code) ==
    /\ reply[1].code = code
    /\ reply[1].text # ""
    /\ reply[1].review = <<>>
    /\ reads = <<>>

\* C17: a request that is not a well-formed admission review gets a
\* transport error and no verdict: 405 for a method other than POST, 400
\* for a body that cannot be read or does not parse, 400 for a review
\* without a request; no admission response is written and the cluster is
\* not read.  Every POST of a well-formed review with a request gets the
\* HTTP status 200 and a review whose response is set.
C17_MalformedGetsTransportError ==
    httpRequest # <<>> =>
    LET r == httpRequest[1]
    IN  /\ r.method # "POST" => Refused(405)
        /\ (r.method = "POST" /\ (~r.body.readable \/ ~r.body.wellFormed))
           => Refused(400)
        /\ (/\ r.method = "POST" /\ r.body.readable /\ r.body.wellFormed
            /\ r.body.request = <<>>)
           => Refused(400)
        /\ (/\ r.method = "POST" /\ r.body.readable /\ r.body.wellFormed
            /\ r.body.request # <<>>)
           => /\ reply[1].code = 200
              /\ reply[1].review # <<>>
              /\ reply[1].review[1].response # <<>>
              /\ reply[1].review[1].response[1].allowed \in BOOLEAN

\* C17 at work: the review of a deletion of the claim, sent with GET, is
\* refused with 405 and the cluster is not read.
C17_Witness ==
    /\ httpRequest # <<>>
    /\ httpRequest[1].method = "GET"
    /\ httpRequest[1].body.request # <<>>
    /\ httpRequest[1].body.request[1].operation = "DELETE"
    /\ httpRequest[1].body.request[1].kind = "PersistentVolumeClaim"
    /\ Refused(405)

----------------------------------------------------------------------------
\* The object of the request being served is given in bytes that do not
\* parse.
OldObjectUnparseable ==
    /\ Answered
    /\ Request.operation = "DELETE"
    /\ Request.oldObject # <<>>
    /\ ~Request.oldObject[1].wellFormed

\* C18: a DELETE whose object does not parse is treated as one without the
\* bypass label: a warning is logged, the deletion is not allowed by bypass,
\* no transport error is written, and the assessment decides: the response
\* and the reads are those of the same request sent without the object.
C18_UnparseableObjectIsNoBypass ==
    OldObjectUnparseable
    => /\ ~BypassAllowed
       /\ reply[1].code = 200
       /\ \E k \in DOMAIN logs :
             Head(logs[k]) = "Warning: Failed to parse OldObject for bypass check: "
       /\ Request.kind \in {"Namespace", "PersistentVolumeClaim", "PersistentVolume"}
          => reads # <<>>
       /\ \E ctx \in Contexts :
             LET Same(plain) == plain.reply = reply[1] /\ plain.reads = reads
             IN  Same(Served(RiskCalculator, ctx, Unlabelled))

\* C18 at work: the object of a Bound claim on a PV of policy Delete, which
\* no snapshot protects, does not parse, though the bypass label is written
\* in it; the deletion is denied.
C18_Witness ==
    /\ OldObjectUnparseable
    /\ Request.oldObject[1].labels = <<("pv-safe.io/force-delete" :> "true")>>
    /\ Request.kind = "PersistentVolumeClaim"
    /\ BoundPVRead # <<>>
    /\ BoundPVRead[1].reclaimPolicy = "Delete"
    /\ snapshots = <<>>
    /\ Denied

----------------------------------------------------------------------------
\* The engine, making the reads of the request being served, returns a
\* risky assessment and no error.
EngineFoundRisk ==
    \E ctx \in Contexts :
        LET Is(assessed) ==
                /\ assessed.reads = reads
                /\ assessed.err = <<>>
                /\ assessed.assessment # <<>>
                /\ assessed.assessment[1].isRisky
        IN  Is(EngineAssessment(ctx))

\* C19: a DELETE of an object that is not a Namespace, a PVC or a PV is
\* allowed and the engine is not called for it: the cluster is not read.
\* So a denial answers only a DELETE of one of the three kinds, without the
\* bypass label, for which the engine returned a risky assessment and no
\* error.
C19_DenyOnlyFromRiskyAssessment ==
    Answered =>
    /\ (/\ Request.operation = "DELETE"
        /\ Request.kind \notin {"Namespace", "PersistentVolumeClaim", "PersistentVolume"})
       => /\ Allowed
          /\ reads = <<>>
          /\ "Risk assessment error (allowed): " \notin MessageOf(Response)
    /\ Denied
       => /\ Request.operation = "DELETE"
          /\ Request.kind \in {"Namespace", "PersistentVolumeClaim", "PersistentVolume"}
          /\ ~CarriesBypassLabel
          /\ EngineFoundRisk

\* C19 at work: the deletion of the Pod prod/app-0, which carries no label,
\* is allowed with no read of the cluster, though the cluster holds a claim
\* the engine finds risky.
C19_Witness ==
    /\ Deleting("Pod")
    /\ Request.oldObject = <<>>
    /\ Allowed
    /\ Response.result = <<>>
    /\ reads = <<>>
    /\ \E i \in DOMAIN pvcs :
          /\ pvcs[i].phase = "Bound"
          /\ pvcs[i].volumeName \in DOMAIN pvs
          /\ pvs[pvcs[i].volumeName].reclaimPolicy = "Delete"
          /\ ~Protected(i)

----------------------------------------------------------------------------
\* The RiskCalculator over the cluster whose claims are listed in the order
\* perm, claim perm[i] at place i.
Relisted(perm) ==
    [RiskCalculator EXCEPT !.client.pvcs = [i \in DOMAIN pvcs |-> pvcs[perm[i]]]]

\* The names of the claims of a sequence of claims or of risky PVCs.
NamesOf(list) == [i \in DOMAIN list |-> list[i].name]

\* Two assessments of the deletion of a namespace, the second made over the
\* listing `items`, agree: none is an error, they give the same verdict and
\* the same set of risky PVCs, and the risky PVCs of the second, which its
\* message enumerates, are the risky claims in the order of `items`.
SameVerdict(namespace, first, second, items) ==
    /\ first.err = <<>>
    /\ second.err = <<>>
    /\ LET Agree(a, b) ==
               /\ a.isRisky = b.isRisky
               /\ {a.riskyPVCs[k] : k \in DOMAIN a.riskyPVCs}
                    = {b.riskyPVCs[k] : k \in DOMAIN b.riskyPVCs}
               /\ Len(a.riskyPVCs) = Len(b.riskyPVCs)
               /\ NamesOf(b.riskyPVCs)
                    = SelectSeq(NamesOf(items),
                                LAMBDA n : \E k \in DOMAIN a.riskyPVCs :
                                               a.riskyPVCs[k].name = n)
               /\ b.isRisky
                  => b.message = buildNamespaceBlockMessage(namespace, b.riskyPVCs)
       IN  Agree(first.assessment[1], second.assessment[1])

\* C20: the verdict on a namespace does not depend on the order in which
\* its claims are listed.  For a namespace deletion whose PVC list is read,
\* the engine, which gives the verdict of the response, gives over every
\* permutation of the claims of the cluster (same PVs, same snapshots, same
\* context) the same verdict and the same set of risky PVCs, and lists the
\* risky PVCs, in the assessment and in the message, in the order of the
\* listing.
C20_VerdictIgnoresListingOrder ==
    (/\ Deleting("Namespace")
     /\ ~CarriesBypassLabel
     /\ ReadSucceeded("ListPVCs", <<Request.name>>))
    => \E ctx \in Contexts :
          LET Base(base) ==
                  /\ base.reads = reads
                  /\ base.err = <<>>
                  /\ Denied <=> base.assessment[1].isRisky
                  /\ \A perm \in Permutations(DOMAIN pvcs) :
                        SameVerdict(Request.name, base,
                            AssessNamespaceDeletion(Relisted(perm), ctx, Request.name),
                            SelectSeq(Relisted(perm).client.pvcs,
                                      LAMBDA c : c.namespace = Request.name))
          IN  Base(AssessNamespaceDeletion(RiskCalculator, ctx, Request.name))

----------------------------------------------------------------------------
\* Execution h has written its reply, an admission response.
AnsweredBy(h) ==
    handlers[h].reply # <<>> /\ handlers[h].reply[1].review # <<>>
ResponseOf(h) == handlers[h].reply[1].review[1].response[1]

\* No read of execution h failed.
AllReadsAnswered(h) ==
    \A i \in DOMAIN handlers[h].reads : handlers[h].reads[i].err = <<>>

\* The reply ServeHTTP gives to request r over the cluster as it is, when it
\* is the only request the server has ever served and its reads have the
\* outcomes `made`.
AloneReplies(r, made, written) ==
    \E ctx \in Contexts :
        LET Same(alone) == alone.reads = made /\ alone.reply = written
        IN  Same(Served([client |-> [pvcs |-> pvcs, pvs |-> pvs,
                                     snapshots |-> snapshots, classes |-> classes],
                         snapshotChecker |-> snapshotChecker], ctx, r))

----------------------------------------------------------------------------
\* C22: the webhook writes nothing to the cluster.  No step of it, whether
\* it allows, denies, bypasses or fails, creates, updates or deletes a PVC,
\* a PV, a snapshot or a snapshot class: after any sequence of requests they
\* are as they were.
C22_ClusterNeverWritten ==
    [][/\ pvcs' = pvcs
       /\ pvs' = pvs
       /\ snapshots' = snapshots
       /\ classes' = classes]_vars

\* C22 at work: the deletion of the namespace prod was allowed for a claim
\* bound to a Retain PV; the claim is still in the cluster.
C22_Witness ==
    /\ Deleting("Namespace")
    /\ ~CarriesBypassLabel
    /\ Allowed
    /\ "Deletion allowed - safe operation" \in MessageOf(Response)
    /\ \E i \in DOMAIN pvcs :
          /\ pvcs[i].namespace = Request.name
          /\ pvcs[i].phase = "Bound"
          /\ ReadSucceeded("GetPV", <<pvcs[i].volumeName>>)
          /\ pvs[pvcs[i].volumeName].claimRef
               = <<[namespace |-> pvcs[i].namespace, name |-> pvcs[i].name]>>

----------------------------------------------------------------------------
\* Line k of the log gives the user of the request being served.
UserLoggedAt(k) ==
    k \in DOMAIN logs /\ logs[k] = <<"  User: ", Request.username>>

\* C23: a denial and a bypass leave their audit lines in the log of the
\* request before the reply is written: the line "BLOCKING: ..." of a
\* denial comes after the lines that give the user and the object of the
\* request; the line "BYPASS: ..." of a bypass names the object and is
\* followed by the line that gives the user.
C23_DenyAndBypassAudited ==
    Answered =>
    /\ Denied
       => \E k \in DOMAIN logs :
             /\ logs[k] = <<"BLOCKING: Risky deletion detected!">>
             /\ k + 1 \in DOMAIN logs
             /\ Head(logs[k + 1]) = "  Reason: "
             /\ \E j \in 1..(k - 1) : UserLoggedAt(j)
             /\ \E j \in 1..(k - 1) : logs[j] = <<"  Name: ", Request.name>>
    /\ BypassAllowed
       => \E k \in DOMAIN logs :
             /\ logs[k] = <<"BYPASS: Force delete label found on ", Request.kind, " ",
                            Request.namespace, "/", Request.name>>
             /\ UserLoggedAt(k + 1)

\* C23 at work: bob is denied the deletion of a PV; the log holds his name
\* and the BLOCKING line.
C23_Witness ==
    /\ Deleting("PersistentVolume")
    /\ Request.username = "bob"
    /\ Denied
    /\ \E k \in DOMAIN logs : logs[k] = <<"  User: ", "bob">>
    /\ \E k \in DOMAIN logs : logs[k] = <<"BLOCKING: Risky deletion detected!">>

----------------------------------------------------------------------------
\* A fragment of the message of the response speaks of Retain.
MessageSaysRetain ==
    MessageOf(Response) \cap
        {"Retain", "PV has Retain reclaim policy", "' exists with Retain policy"} # {}

\* C24: the message of the response to a deletion allowed as safe says why:
\* for a claim Bound to a Retain PV it speaks of Retain; for a claim a
\* ready snapshot of a Retain class protects it names the snapshot the
\* probe found.
C24_SafeAllowSaysWhy ==
    (/\ Deleting("PersistentVolumeClaim")
     /\ ~CarriesBypassLabel
     /\ BoundPVRead # <<>>
     /\ Allowed)
    => /\ BoundPVRead[1].reclaimPolicy = "Retain" => MessageSaysRetain
       /\ (/\ BoundPVRead[1].reclaimPolicy # "Retain"
           /\ ReadSucceeded("ListSnapshots", <<Request.namespace>>))
          => \E i \in DOMAIN snapshots :
                /\ ProtectedBy(i, Request.namespace, Request.name)
                /\ snapshots[i].name \in MessageOf(Response)

----------------------------------------------------------------------------
\* The call of HasReadySnapshot made, and whether its list read succeeded.
Probe == probed[1]
ProbeListed ==
    /\ probed # <<>>
    /\ Probe.reads # <<>>
    /\ Probe.reads[1] = [op |-> "ListSnapshots", key |-> <<Probe.namespace>>,
                         err |-> <<>>]

\* The class of snapshot i was read by the call.
ClassReadOf(i) ==
    /\ snapshots[i].className # <<>>
    /\ \E k \in DOMAIN Probe.reads :
          Probe.reads[k] = [op |-> "GetSnapshotClass",
                            key |-> <<snapshots[i].className[1]>>, err |-> <<>>]

\* Snapshot i qualifies for the call: it is of the namespace and the claim
\* asked about, ready, and its class, read by the call, has the policy
\* Retain.
Qualifies(i) ==
    /\ ProtectedBy(i, Probe.namespace, Probe.pvcName)
    /\ ClassReadOf(i)

\* C25: when its list read succeeds, HasReadySnapshot(ns, pvc) returns
\* found = true exactly when the cluster holds, in ns, a ready snapshot of
\* pvc whose class is read with the policy Retain.  A ready snapshot of
\* another policy earlier in the list does not end the search, a snapshot of
\* another namespace does not count, and the info returned is that of the
\* first snapshot of the list that qualifies.
C25_FoundIffReadyRetainSnapshot ==
    ProbeListed
    => /\ Probe.found <=> \E i \in DOMAIN snapshots : Qualifies(i)
       /\ Probe.found
          => /\ Probe.err = <<>>
             /\ Probe.info # <<>>
             /\ \E i \in DOMAIN snapshots :
                   /\ Qualifies(i)
                   /\ \A j \in 1..(i - 1) : ~Qualifies(j)
                   /\ Probe.info[1].name = snapshots[i].name
                   /\ Probe.info[1].namespace = Probe.namespace
                   /\ Probe.info[1].sourcePVC = Probe.pvcName
                   /\ Probe.info[1].deletionPolicy = "Retain"
       /\ ~Probe.found => Probe.info = <<>>

\* C25 at work: the list holds a ready snapshot of prod/db of a Delete class
\* and, after it, one of a Retain class; the call for prod/db finds the
\* second.
C25_Witness ==
    /\ ProbeListed
    /\ Probe.namespace = "prod"
    /\ Len(snapshots) = 2
    /\ ReadySnapshotOf(1, "prod", "db")
    /\ ClassPolicyIs(1, "Delete")
    /\ ProtectedBy(2, "prod", "db")
    /\ Probe.found
    /\ Probe.info[1].name = "snap-2"

----------------------------------------------------------------------------
\* Snapshot i is a ready snapshot of the claim the call asks about.
Candidate(i) == ReadySnapshotOf(i, Probe.namespace, Probe.pvcName)

\* The deletion policy of candidate i is unknown to the call: the snapshot
\* names no class or the empty name, the read of its class failed, or its
\* class has no deletionPolicy.
PolicyUnknown(i) ==
    \/ snapshots[i].className = <<>>
    \/ snapshots[i].className = <<"">>
    \/ \E k \in DOMAIN Probe.reads :
          /\ Probe.reads[k].op = "GetSnapshotClass"
          /\ Probe.reads[k].key = snapshots[i].className
          /\ Probe.reads[k].err # <<>>
    \/ /\ snapshots[i].className[1] \in DOMAIN classes
       /\ ~classes[snapshots[i].className[1]].hasPolicy

\* C26: a ready snapshot of the claim whose deletion policy is unknown (no
\* class named, the read of the class fails, the class has no
\* deletionPolicy) does not make the claim safe: it is never the snapshot
\* found, and nothing is found when every candidate is such.  The failure
\* of a class read does not end the call: the call returns no error and
\* has gone on to the class of every later candidate until one qualified.
C26_UnknownPolicyNeverProtects ==
    ProbeListed
    => /\ Probe.err = <<>>
       /\ \A i \in DOMAIN snapshots :
             (Candidate(i) /\ PolicyUnknown(i))
             => ~(Probe.found /\ Probe.info[1].name = snapshots[i].name)
       /\ (\A i \in DOMAIN snapshots : Candidate(i) => PolicyUnknown(i))
          => ~Probe.found /\ Probe.info = <<>>
       /\ \A i \in DOMAIN snapshots :
             (/\ Candidate(i)
              /\ snapshots[i].className \notin {<<>>, <<"">>}
              /\ \A j \in 1..(i - 1) : ~Qualifies(j))
             => \E k \in DOMAIN Probe.reads :
                   /\ Probe.reads[k].op = "GetSnapshotClass"
                   /\ Probe.reads[k].key = snapshots[i].className

\* C26 at work: the first candidate names a class that cannot be read, the
\* second a Retain class; the call reads both classes, returns no error and
\* finds the second.
C26_Witness ==
    /\ ProbeListed
    /\ Len(snapshots) = 2
    /\ Candidate(1)
    /\ snapshots[1].className = <<MissingClass>>
    /\ Probe.reads[2] = [op |-> "GetSnapshotClass", key |-> <<MissingClass>>,
                         err |-> <<"not found">>]
    /\ Candidate(2)
    /\ Probe.found
    /\ Probe.info[1].name = "snap-2"
    /\ Probe.err = <<>>

----------------------------------------------------------------------------
\* The lines of a block message that open the entry of a risky PVC.
EntryLines(message) == SelectSeq(message, LAMBDA f : f = "  - ")

\* Assessment a, returned for the deletion being served, is well formed:
\* its list of risky PVCs is empty exactly when it is not risky; for a
\* namespace each entry is a Bound claim of the namespace with the PV it is
\* bound to, and the message counts and lists as many PVCs as the list has.
WellFormed(a) ==
    /\ a.isRisky <=> a.riskyPVCs # <<>>
    /\ Request.kind = "PersistentVolumeClaim"
       => \A k \in DOMAIN a.riskyPVCs :
             /\ a.riskyPVCs[k].namespace = Request.namespace
             /\ a.riskyPVCs[k].name = Request.name
    /\ Request.kind = "Namespace"
       => /\ \A k \in DOMAIN a.riskyPVCs :
                \E i \in ListedClaims :
                    /\ pvcs[i].phase = "Bound"
                    /\ a.riskyPVCs[k].namespace = Request.name
                    /\ a.riskyPVCs[k].name = pvcs[i].name
                    /\ a.riskyPVCs[k].pvName = pvcs[i].volumeName
          /\ a.isRisky
             => /\ SubSeq(a.message, 1, 5) =
                     <<"DELETION BLOCKED: Namespace '", Request.name, "' contains ",
                       ToString(Len(a.riskyPVCs)),
                       " PVC(s) that would lose data permanently\n\n">>
                /\ Len(EntryLines(a.message)) = Len(a.riskyPVCs)

\* C27: an assessment the engine returns without error for the deletion of
\* a PVC or of a namespace is well formed: risky exactly when its list of
\* risky PVCs is not empty, the entries of a namespace being Bound claims of
\* the namespace with their PVs and as many as the message counts.
C27_RiskyListIffRisky ==
    (/\ Answered
     /\ Request.operation = "DELETE"
     /\ Request.kind \in {"Namespace", "PersistentVolumeClaim"}
     /\ ~CarriesBypassLabel)
    => \E ctx \in Contexts :
          LET Is(assessed) ==
                  /\ assessed.reads = reads
                  /\ assessed.err = <<>> => /\ assessed.assessment # <<>>
                                            /\ WellFormed(assessed.assessment[1])
                                            /\ Denied <=> assessed.assessment[1].isRisky
          IN  Is(EngineAssessment(ctx))

\* C27 at work: of the two claims of the namespace being deleted one cannot
\* have its PV read and one is risky; the deletion is denied for one PVC.
C27_Witness ==
    /\ Deleting("Namespace")
    /\ Denied
    /\ Len(pvcs) = 2
    /\ \A i \in DOMAIN pvcs : pvcs[i].namespace = Request.name /\ pvcs[i].phase = "Bound"
    /\ \E i \in DOMAIN pvcs : ReadFailed("GetPV", <<pvcs[i].volumeName>>)
    /\ \E i \in DOMAIN pvcs : OnReadUnretainedPV(i)
    /\ SubSeq(Response.result[1].message, 3, 5) =
          <<"' contains ", "1", " PVC(s) that would lose data permanently\n\n">>

----------------------------------------------------------------------------
\* Read k of the request being served is the read op of key, answered.
AnsweredRead(k, op, key) ==
    k \in DOMAIN reads /\ reads[k] = [op |-> op, key |-> key, err |-> <<>>]

\* The claim whose snapshots read k of the request belongs to: the claim
\* bound to the PV read last before k, as a sequence of 0 or 1 claims.
ClaimProbedAt(k) ==
    SelectSeq(pvcs, LAMBDA c :
        /\ c.phase = "Bound"
        /\ \E g \in 1..(k - 1) :
              /\ AnsweredRead(g, "GetPV", <<c.volumeName>>)
              /\ \A m \in (g + 1)..(k - 1) : reads[m].op # "GetPV")

\* C28: the reads of a request follow the early exits of the decision.  A
\* request with the bypass label reads nothing.  A PVC deletion reads the
\* claim first and the PV, second, only when the claim was read Bound.  The
\* snapshot list is read only right after a Bound claim's PV was read with a
\* policy other than Retain.  A snapshot class is read only for a ready
\* snapshot of that claim, after the list was read.  After the class of a
\* ready snapshot of the claim is read with the policy Retain, no further
\* snapshot or class is read for the claim.
C28_ReadsFollowEarlyExits ==
    (Answered /\ Request.operation = "DELETE")
    => /\ CarriesBypassLabel => reads = <<>>
       /\ Request.kind = "PersistentVolumeClaim"
          => \A k \in DOMAIN reads :
                /\ reads[k].op = "GetPVC" => k = 1
                /\ reads[k].op = "GetPV"
                   => /\ k = 2
                      /\ AnsweredRead(1, "GetPVC", <<Request.namespace, Request.name>>)
                      /\ ClaimAt(Request.namespace, Request.name)[1].phase = "Bound"
                      /\ reads[k].key =
                           <<ClaimAt(Request.namespace, Request.name)[1].volumeName>>
       /\ \A k \in DOMAIN reads :
             /\ reads[k].op = "ListSnapshots"
                => /\ k > 1
                   /\ reads[k - 1].op = "GetPV"
                   /\ reads[k - 1].err = <<>>
                   /\ pvs[reads[k - 1].key[1]].reclaimPolicy # "Retain"
                   /\ ClaimProbedAt(k) # <<>>
                   /\ reads[k].key = <<ClaimProbedAt(k)[1].namespace>>
             /\ reads[k].op = "GetSnapshotClass"
                => /\ ClaimProbedAt(k) # <<>>
                   /\ \E g \in 1..(k - 1) :
                         /\ AnsweredRead(g, "ListSnapshots",
                                         <<ClaimProbedAt(k)[1].namespace>>)
                         /\ \A m \in (g + 1)..(k - 1) : reads[m].op = "GetSnapshotClass"
                   /\ \E i \in DOMAIN snapshots :
                         /\ ReadySnapshotOf(i, ClaimProbedAt(k)[1].namespace,
                                            ClaimProbedAt(k)[1].name)
                         /\ snapshots[i].className = reads[k].key
             /\ (/\ reads[k].op = "GetSnapshotClass"
                 /\ reads[k].err = <<>>
                 /\ classes[reads[k].key[1]].hasPolicy
                 /\ classes[reads[k].key[1]].deletionPolicy = "Retain")
                => (k + 1 \in DOMAIN reads => reads[k + 1].op = "GetPV")

\* C28 at work: the claim prod/db, Bound to a Delete PV, has two ready
\* snapshots of a Retain class; its deletion reads the claim, the PV, the
\* snapshot list and the class once, and is allowed.
C28_Witness ==
    /\ Deleting("PersistentVolumeClaim")
    /\ Allowed
    /\ Len(snapshots) = 2
    /\ ProtectedBy(1, "prod", "db")
    /\ ProtectedBy(2, "prod", "db")
    /\ [k \in DOMAIN reads |-> reads[k].op] =
          <<"GetPVC", "GetPV", "ListSnapshots", "GetSnapshotClass">>

----------------------------------------------------------------------------
\* The lines of the log of execution h that open with `head`.
LinesOf(h, head) ==
    {k \in DOMAIN handlers[h].logs : Head(handlers[h].logs[k]) = head}

\* The lines that close the decision of a DELETE.
VerdictHeads ==
    {"BYPASS: Force delete label found on ", "ERROR: Risk assessment failed: ",
     "BLOCKING: Risky deletion detected!", "ALLOWING: Deletion is safe",
     "Unknown resource type "}

\* The line at which execution h closed its decision, as a set of 0 or 1
\* (or, were there more, several) lines.
VerdictLines(h) == UNION {LinesOf(h, head) : head \in VerdictHeads}

\* The terminal state of execution h, which has replied.
TerminalOf(h) ==
    IF handlers[h].reply[1].review = <<>> THEN "ERROR_REPLY"
    ELSE IF ResponseOf(h).allowed THEN "ALLOW"
    ELSE "DENY"

\* Execution h, which has replied, went through the states of a request in
\* order, as its log shows: it parsed; on a parse failure it replied 4xx
\* and no more; else it routed by operation; a request that is no DELETE
\* was allowed at once; a DELETE was checked for the bypass label and either
\* allowed by it or routed by kind and assessed, and one verdict was
\* emitted, which is the response.
PathFollowed(h) ==
    LET r == handlers[h].request[1]
        lines == handlers[h].logs
        rep29 == handlers[h].reply[1]
    IN  /\ lines # <<>>
        /\ lines[1] = <<"Received request: ", r.method, " ", r.path>>
        /\ TerminalOf(h) = "ERROR_REPLY"
           => /\ rep29.code \in {400, 405}
              /\ handlers[h].reads = <<>>
              /\ LinesOf(h, "Admission Request Details:") = {}
              /\ VerdictLines(h) = {}
        /\ TerminalOf(h) # "ERROR_REPLY"
           => /\ rep29.code = 200
              /\ LinesOf(h, "Admission Request Details:") = {2}
              /\ r.body.request[1].operation # "DELETE"
                 => /\ TerminalOf(h) = "ALLOW"
                    /\ VerdictLines(h) = {}
                    /\ LinesOf(h, "Assessing risk for ") = {}
                    /\ handlers[h].reads = <<>>
              /\ r.body.request[1].operation = "DELETE"
                 => /\ Cardinality(VerdictLines(h)) = 1
                    /\ \A v \in VerdictLines(h) : v > 2
                    /\ LinesOf(h, "BYPASS: Force delete label found on ") # {}
                       => /\ LinesOf(h, "Assessing risk for ") = {}
                          /\ handlers[h].reads = <<>>
                          /\ TerminalOf(h) = "ALLOW"
                    /\ LinesOf(h, "BYPASS: Force delete label found on ") = {}
                       => /\ Cardinality(LinesOf(h, "Assessing risk for ")) = 1
                          /\ \A a \in LinesOf(h, "Assessing risk for "),
                                v \in VerdictLines(h) : 2 < a /\ a < v
                    /\ TerminalOf(h) = "DENY"
                       <=> LinesOf(h, "BLOCKING: Risky deletion detected!") # {}

\* C29: a request goes through PARSE, ROUTE_BY_OP, ALLOW_NONDELETE or
\* BYPASS_CHECK, BYPASS_ALLOW or ROUTE_BY_KIND, ASSESS and EMIT_VERDICT in
\* this order and, its reads returning or failing, ends in one of ALLOW,
\* DENY and ERROR_REPLY: every execution that holds a request comes to
\* write a reply, the reply shows the path, and a reply once written is not
\* written again before the execution returns.
C29_RequestReachesOneVerdict ==
    /\ [](\A h \in HandlerIds : handlers[h].reply # <<>> => PathFollowed(h))
    /\ [][\A h \in HandlerIds :
             handlers[h].reply # <<>>
             => \/ handlers'[h].reply = handlers[h].reply
                \/ handlers'[h] = NoHandler]_vars
    /\ \A h \in HandlerIds :
          (handlers[h].request # <<>>) ~> (handlers[h].reply # <<>>)

\* C29 at work: h1 has ended in DENY and h2 in ERROR_REPLY.
C29_Witness ==
    /\ handlers["h1"].reply # <<>>
    /\ handlers["h2"].reply # <<>>
    /\ TerminalOf("h1") = "DENY"
    /\ TerminalOf("h2") = "ERROR_REPLY"
    /\ PathFollowed("h1")
    /\ PathFollowed("h2")

----------------------------------------------------------------------------
\* The first lines of the remediation texts.
RemedyHeads ==
    {"\nTo safely delete this PVC:\n", "\nTo safely delete this resource:\n",
     "\nTo safely delete this PV:\n"}

\* The remediation text of the response: its message from the first line of
\* a remediation text on.
Remediation ==
    LET message == Response.result[1].message
        heads == {k \in DOMAIN message : message[k] \in RemedyHeads}
    IN  IF heads = {} THEN <<>>
        ELSE SubSeq(message, CHOOSE k \in heads : \A j \in heads : k <= j,
                    Len(message))

\* The places of text, in order, at which fragment stands.
PlacesOf(text, fragment) ==
    SelectSeq([k \in DOMAIN text |-> k], LAMBDA k : text[k] = fragment)

\* What follows each occurrence of command in text, in order.
ArgumentsOf(text, command) ==
    LET places == PlacesOf(text, command)
    IN  [j \in DOMAIN places |-> text[places[j] + 1]]

PatchCommand == "     kubectl patch pv "
PatchTail == " -p '{\"spec\":{\"persistentVolumeReclaimPolicy\":\"Retain\"}}'\n"
ForceStep == "\n  3. OR force delete (will lose data):\n"
LabelTail == " pv-safe.io/force-delete=true\n"

\* The fixed wording of the remediation texts.
RemedyWording ==
    RemedyHeads \cup
    {"  1. Create a VolumeSnapshot of the data\n",
     "  1. Create VolumeSnapshots for the PVCs\n",
     "  2. OR change PV reclaim policy to Retain:\n",
     "  2. OR change reclaim policy to Retain:\n",
     PatchCommand, PatchTail, ForceStep, LabelTail,
     "     kubectl label pvc ", "     kubectl label namespace ",
     "     kubectl label pv ", " -n ", "\n",
     "     kubectl delete pvc ", "     kubectl delete namespace ",
     "     kubectl delete pv ", "\n  4. Then retry the deletion\n"}

\* The identifiers the request and the objects read for it carry.
Observed ==
    {Request.name, Request.namespace}
    \cup {pvcs[i].volumeName :
            i \in {j \in DOMAIN pvcs :
                     pvcs[j].namespace =
                         IF Request.kind = "Namespace" THEN Request.name
                         ELSE Request.namespace}}

\* text lists the alternatives in order: create a snapshot, then patch the
\* reclaim policy, every patch command standing there, then force the
\* deletion by the bypass label, the label command standing there.
AlternativesInOrder(text, labelCommand) ==
    /\ Len(text) >= 3
    /\ text[1] \in RemedyHeads
    /\ text[2] \in {"  1. Create a VolumeSnapshot of the data\n",
                    "  1. Create VolumeSnapshots for the PVCs\n"}
    /\ text[3] \in {"  2. OR change PV reclaim policy to Retain:\n",
                    "  2. OR change reclaim policy to Retain:\n"}
    /\ Len(PlacesOf(text, ForceStep)) = 1
    /\ \A j \in DOMAIN PlacesOf(text, PatchCommand) :
          /\ PlacesOf(text, PatchCommand)[j] > 3
          /\ PlacesOf(text, PatchCommand)[j] < PlacesOf(text, ForceStep)[1]
          /\ text[PlacesOf(text, PatchCommand)[j] + 2] = PatchTail
    /\ PlacesOf(text, labelCommand) = <<PlacesOf(text, ForceStep)[1] + 1>>
    /\ Len(PlacesOf(text, LabelTail)) = 1
    /\ PlacesOf(text, LabelTail)[1] > PlacesOf(text, labelCommand)[1]

\* The names of the risky PVCs the message of the response lists, in order.
ListedRisky == ArgumentsOf(Response.result[1].message, "  - ")

\* The place in the listing of the claim called name in the namespace being
\* deleted.
PlaceOfClaim(name) ==
    CHOOSE i \in DOMAIN pvcs :
        pvcs[i].namespace = Request.name /\ pvcs[i].name = name

\* The remediation text of the response that denies the deletion being
\* served says what it has to.
RemediationAsObserved(text) ==
    /\ text # <<>>
    /\ \A k \in DOMAIN text : text[k] \in RemedyWording \cup Observed
    /\ Request.kind = "PersistentVolumeClaim"
       => /\ AlternativesInOrder(text, "     kubectl label pvc ")
          /\ \E i \in DOMAIN pvcs :
                /\ pvcs[i].namespace = Request.namespace
                /\ pvcs[i].name = Request.name
                /\ ArgumentsOf(text, PatchCommand) = <<pvcs[i].volumeName>>
          /\ \E p \in DOMAIN text :
                SubSeq(text, p, p + 4) =
                    <<"     kubectl label pvc ", Request.name, " -n ",
                      Request.namespace, LabelTail>>
    /\ Request.kind = "Namespace"
       => /\ AlternativesInOrder(text, "     kubectl label namespace ")
          /\ ListedRisky # <<>>
          /\ \A j \in DOMAIN ListedRisky :
                \E i \in DOMAIN pvcs :
                    pvcs[i].namespace = Request.name /\ pvcs[i].name = ListedRisky[j]
          /\ \A j, k \in DOMAIN ListedRisky :
                j < k => PlaceOfClaim(ListedRisky[j]) < PlaceOfClaim(ListedRisky[k])
          /\ ArgumentsOf(text, PatchCommand) =
                 [j \in DOMAIN ListedRisky |->
                     pvcs[PlaceOfClaim(ListedRisky[j])].volumeName]
          /\ \A i \in DOMAIN pvcs :
                (\A j \in DOMAIN ListedRisky :
                    ~(pvcs[i].namespace = Request.name
                      /\ pvcs[i].name = ListedRisky[j]))
                => \A j \in DOMAIN ArgumentsOf(text, PatchCommand) :
                      ArgumentsOf(text, PatchCommand)[j] # pvcs[i].volumeName
    /\ Request.kind = "PersistentVolume"
       => /\ AlternativesInOrder(text, "     kubectl label pv ")
          /\ ArgumentsOf(text, PatchCommand) = <<Request.name>>
          /\ ArgumentsOf(text, "     kubectl label pv ") = <<Request.name>>
          /\ ArgumentsOf(text, "     kubectl delete pv ") = <<Request.name>>

====
